---- MODULE Spec2Model ----
(***************************************************************************)
(* Model of the construction-sketch drawing engine                         *)
(* (src/lib/sketch/drawing-engine.ts), of the drawing viewer that renders  *)
(* a Drawing, zooms and pans it and edits its dimension values             *)
(* (src/components/sketch/photo-capture.tsx, DrawingViewer), of the route  *)
(* that builds a Drawing from the generator's JSON                         *)
(* (src/app/api/sketch/generate/route.ts) and of the sketch page with its  *)
(* chat (src/app/sketch/page.tsx, src/unnamed/part_001).                   *)
(*                                                                         *)
(* Numbers.  The source computes in IEEE doubles.  The model computes in   *)
(* exact rationals [n |-> numerator, d |-> denominator > 0] in lowest      *)
(* terms; the square root of the segment length, which is irrational for   *)
(* most segments, is kept exact as well: a coordinate that the source      *)
(* derives from the unit normal is a value  r + c / sqrt(q)  (see Surd).   *)
(* Angles are whole degrees (see atan2Deg).  Strings are TLA+ strings;     *)
(* markup is a sequence of nodes, the empty sequence being the empty       *)
(* string.                                                                 *)
(***************************************************************************)
EXTENDS Integers, Sequences, FiniteSets, TLC

VARIABLES
    drawing,           \* DrawingViewer prop `drawing` (SketchPage state)
    viewportSize,      \* DrawingViewer state
    svgString,         \* DrawingViewer useMemo: the last render
    editingDimension,  \* DrawingViewer state: a dimension element or Null
    editValue,         \* DrawingViewer state: the text of the edit box
    now,               \* the wall clock, in ticks
    renderLog,         \* the first generateSVG call: its input and output,
                       \* and whether a call with another input followed
    fmtIn,             \* formatDimension: the arguments of the call
    fmtOut,            \* formatDimension: the value returned
    scaleIn,           \* calculateScale: the arguments of the call
    scaleOut,          \* calculateScale: the value returned
    elIn,              \* renderElement: the arguments of the call
    elOut,             \* renderElement: the value returned
    saveResult,        \* handleSaveDimension: how the last call ended
    zoom,              \* DrawingViewer state
    panOffset,         \* DrawingViewer state
    isPanning,         \* DrawingViewer state
    panStart,          \* DrawingViewer state
    lastTouchDist,     \* DrawingViewer lastTouchDistRef.current
    routeIn,           \* generate route: the JSON the generator returned
    routeOut,          \* generate route: the body of the response
    step,              \* SketchPage state
    photo,             \* SketchPage state: photoFile and photoUrl
    messages,          \* SketchPage state: the kinds of the chat messages
    conversation,      \* SketchPage conversationRef.current: the roles
    isLoading,         \* SketchPage state
    isGenerating,      \* SketchPage state
    analysis,          \* SketchPage state
    readyToGenerate,   \* SketchPage state
    requests,          \* the fetches of the page that have not settled
    sent,              \* the number of fetches the page has started
    input,             \* SketchChat state: the text typed
    isListening        \* VoiceInput state: recognition is running

vars == <<drawing, viewportSize, svgString, editingDimension, editValue, now,
          renderLog, fmtIn, fmtOut, scaleIn, scaleOut, elIn, elOut,
          saveResult, zoom, panOffset, isPanning, panStart, lastTouchDist,
          routeIn, routeOut, step, photo, messages, conversation, isLoading,
          isGenerating, analysis, readyToGenerate, requests, sent, input,
          isListening>>

\* null, for a state that holds an object or null
Null == [null |-> TRUE]

(***************************************************************************)
(* Exact rational arithmetic.  A number is n/d in lowest terms; d = 0      *)
(* holds the three values that are not finite: 1/0 is Infinity, -1/0 is    *)
(* -Infinity and 0/0 is NaN.  A zero has no sign.                          *)
(***************************************************************************)
Abs(a) == IF a < 0 THEN -a ELSE a

RECURSIVE GCD(_, _)
GCD(a, b) == IF b = 0 THEN a ELSE GCD(b, a % b)

\* the number n/d in lowest terms with a denominator that is not negative
Rat(n, d) ==
    LET g == GCD(Abs(n), Abs(d))
        s == IF d < 0 THEN -1 ELSE 1
    IN  IF g = 0 THEN [n |-> 0, d |-> 0]
        ELSE [n |-> (s * n) \div g, d |-> (s * d) \div g]

RInt(k) == [n |-> k, d |-> 1]
RNaN == [n |-> 0, d |-> 0]
IsFinite(a) == a.d # 0
IsNaN(a) == a.d = 0 /\ a.n = 0
\* a === 0
IsZero(a) == a.n = 0 /\ a.d # 0
\* two infinities of one sign add up to themselves, of opposite signs to NaN
RAdd(a, b) ==
    IF a.d = 0 /\ b.d = 0 THEN (IF a.n = b.n THEN a ELSE RNaN)
    ELSE Rat(a.n * b.d + b.n * a.d, a.d * b.d)
RNeg(a) == [n |-> -a.n, d |-> a.d]
RSub(a, b) == RAdd(a, RNeg(b))
RMul(a, b) == Rat(a.n * b.n, a.d * b.d)
\* a / b as a times the reciprocal of b, which carries the sign of b
RDiv(a, b) == RMul(a, Rat(b.d, b.n))
\* a < b: false when either is NaN
RLess(a, b) ==
    IF a.d # 0 /\ b.d # 0 THEN a.n * b.d < b.n * a.d
    ELSE IF IsNaN(a) \/ IsNaN(b) THEN FALSE
    ELSE IF a.d = 0 THEN a.n < 0 /\ ~(b.d = 0 /\ b.n < 0)
    ELSE b.n > 0
RLeq(a, b) ==
    IF a.d # 0 /\ b.d # 0 THEN a.n * b.d <= b.n * a.d
    ELSE IF IsNaN(a) \/ IsNaN(b) THEN FALSE
    ELSE ~RLess(b, a)
\* Math.min and Math.max: NaN when either argument is NaN
RMin(a, b) == IF IsNaN(a) \/ IsNaN(b) THEN RNaN
              ELSE IF RLess(b, a) THEN b ELSE a
RMax(a, b) == IF IsNaN(a) \/ IsNaN(b) THEN RNaN
              ELSE IF RLess(a, b) THEN b ELSE a
RSign(a) == IF a.n > 0 THEN 1 ELSE IF a.n < 0 THEN -1 ELSE 0

\* Math.floor
MathFloor(a) == a.n \div a.d
\* Math.round: the nearest integer, a tie going up
MathRound(a) == (2 * a.n + a.d) \div (2 * a.d)
\* Math.trunc, used by the remainder operator
MathTrunc(a) == IF a.n < 0 THEN -((-a.n) \div a.d) ELSE a.n \div a.d
\* a % b of the source language: the remainder has the sign of the dividend
RRem(a, b) == RSub(a, RMul(b, RInt(MathTrunc(RDiv(a, b)))))

RECURSIVE Pow10(_)
Pow10(k) == IF k = 0 THEN 1 ELSE 10 * Pow10(k - 1)

\* the decimal digits of m >= 0, left-padded with zeros to k digits
RECURSIVE Digits(_, _)
Digits(m, k) ==
    IF k = 0 THEN "" ELSE Digits(m \div 10, k - 1) \o ToString(m % 10)

\* Number.prototype.toFixed(f), f >= 1: the sign is split off, then the
\* integer n nearest to |x| * 10^f is taken (the larger one on a tie)
toFixed(x, f) ==
    LET neg == x.n < 0
        ax  == IF neg THEN RNeg(x) ELSE x
        m   == MathRound(RMul(ax, RInt(Pow10(f))))
    IN  (IF neg THEN "-" ELSE "")
          \o ToString(m \div Pow10(f)) \o "." \o Digits(m % Pow10(f), f)

(***************************************************************************)
(* Values r + c / sqrt(q): what the source computes from the unit normal   *)
(* (-dy / len, dx / len), len = Math.sqrt(dx * dx + dy * dy), q = len^2.   *)
(* A perfect square q is folded into the rational part.                    *)
(***************************************************************************)
RECURSIVE SqrtSearch(_, _, _)
SqrtSearch(n, lo, hi) ==
    IF lo >= hi THEN lo
    ELSE LET mid == (lo + hi + 1) \div 2
         IN  IF mid * mid <= n THEN SqrtSearch(n, mid, hi)
             ELSE SqrtSearch(n, lo, mid - 1)

\* the integer part of the square root of n >= 0
ISqrt(n) == SqrtSearch(n, 0, IF n < 46340 THEN n ELSE 46340)

\* the value r + c / sqrt(q), q not a perfect square unless c = 0
Surd(r, c, q) ==
    IF ~IsFinite(c) THEN [r |-> RAdd(r, c), c |-> RInt(0), q |-> RInt(1)]
    ELSE IF c.n = 0 THEN [r |-> r, c |-> RInt(0), q |-> RInt(1)]
    ELSE [r |-> r, c |-> c, q |-> q]

\* a rational as a value of this kind
SRat(r) == [r |-> r, c |-> RInt(0), q |-> RInt(1)]
\* coeff / len for len = sqrt(len2): one component of a scaled unit normal
SOverLen(coeff, len2) ==
    IF ~IsFinite(coeff) \/ ~IsFinite(len2)
    THEN SRat(IF IsNaN(coeff) \/ IsNaN(len2) THEN RNaN
              ELSE IF IsFinite(coeff) THEN RInt(0)
              ELSE IF IsFinite(len2) THEN coeff ELSE RNaN)
    ELSE IF coeff.n = 0 THEN SRat(RInt(0))
    ELSE LET sn == ISqrt(len2.n)
             sd == ISqrt(len2.d)
         IN  IF sn * sn = len2.n /\ sd * sd = len2.d
             THEN SRat(RMul(coeff, Rat(sd, sn)))
             ELSE [r |-> RInt(0), c |-> coeff, q |-> len2]
\* sums and rational multiples; all surds of one renderer share one len
SAdd(a, b) == Surd(RAdd(a.r, b.r), RAdd(a.c, b.c),
                   IF a.c.n # 0 THEN a.q ELSE b.q)
SScale(a, k) == Surd(RMul(a.r, k), RMul(a.c, k), a.q)
SSub(a, b) == SAdd(a, SScale(b, RInt(-1)))

(***************************************************************************)
(* Math.atan2(dy, dx) * (180 / Math.PI), in whole degrees.  The four axis  *)
(* directions give exactly 0, 90, 180 and -90, as the doubles do; every    *)
(* other direction gives the nearest whole degree strictly inside its      *)
(* quadrant, so that comparing the result with 90 and -90 decides as the   *)
(* source does.                                                            *)
(***************************************************************************)
\* floor(1000 * tan((k - 1/2) degrees)) for k = 1..90
TanHalfDeg ==
    <<8, 26, 43, 61, 78, 96, 113, 131, 149, 167, 185, 203, 221, 240, 258,
      277, 296, 315, 334, 354, 373, 393, 414, 434, 455, 476, 498, 520, 542,
      565, 589, 612, 637, 661, 687, 713, 739, 767, 795, 824, 854, 884, 916,
      948, 982, 1017, 1053, 1091, 1130, 1170, 1213, 1257, 1303, 1351, 1401,
      1455, 1510, 1569, 1631, 1697, 1767, 1841, 1920, 2005, 2096, 2194,
      2299, 2414, 2538, 2674, 2823, 2988, 3171, 3375, 3605, 3866, 4165,
      4510, 4915, 5395, 5975, 6691, 7595, 8776, 10385, 12706, 16349, 22903,
      38188, 114588>>

\* the angle of the direction (ax, ay), ax > 0, ay > 0, in 1..89
acuteDeg(ay, ax) ==
    LET k == Cardinality({i \in 1..90 : ay * 1000 > TanHalfDeg[i] * ax})
    IN  IF k < 1 THEN 1 ELSE IF k > 89 THEN 89 ELSE k

atan2Deg(dy, dx) ==
    LET py == IF IsFinite(dy) THEN (IF IsFinite(dx) THEN dy.n * dx.d ELSE 0)
              ELSE dy.n
        px == IF IsFinite(dx) THEN (IF IsFinite(dy) THEN dx.n * dy.d ELSE 0)
              ELSE dx.n
        g  == GCD(Abs(py), Abs(px))
        y  == IF g = 0 THEN 0 ELSE py \div g
        x  == IF g = 0 THEN 0 ELSE px \div g
    IN  CASE y = 0 /\ x >= 0 -> 0
          [] y = 0 /\ x < 0  -> 180
          [] x = 0 /\ y > 0  -> 90
          [] x = 0 /\ y < 0  -> -90
          [] x > 0 /\ y > 0  -> acuteDeg(y, x)
          [] x < 0 /\ y > 0  -> 180 - acuteDeg(y, -x)
          [] x < 0 /\ y < 0  -> acuteDeg(-y, -x) - 180
          [] x > 0 /\ y < 0  -> -acuteDeg(-y, x)

(***************************************************************************)
(* formatDimension                                                         *)
(***************************************************************************)
MmPerInch == Rat(254, 10)

formatDimensionBadDefault(valueMm, unit) ==
    CASE unit = "mm" -> ToString(MathRound(valueMm)) \o "mm"
      [] unit = "cm" -> toFixed(RDiv(valueMm, RInt(10)), 1) \o "cm"
      [] unit = "m"  -> toFixed(RDiv(valueMm, RInt(1000)), 2) \o "m"
      [] unit = "in" -> toFixed(RDiv(valueMm, MmPerInch), 1) \o "\""
      [] unit = "ft" ->
            LET totalInches == RDiv(valueMm, MmPerInch)
                feet   == MathFloor(RDiv(totalInches, RInt(12)))
                inches == MathRound(RRem(totalInches, RInt(12)))
            IN  ToString(feet) \o "'" \o ToString(inches) \o "\""
      [] OTHER -> ToString(MathRound(valueMm))

\* the ft case carrying a rounded 12 inches into the feet
formatDimensionCarry(valueMm, unit) ==
    IF unit = "ft"
    THEN LET total == MathRound(RDiv(valueMm, MmPerInch))
         IN  ToString(total \div 12) \o "'" \o ToString(total % 12) \o "\""
    ELSE formatDimensionBadDefault(valueMm, IF unit = "yd" THEN "mm" ELSE unit)

\* the ft case wrapping a rounded 12 inches to 0 without a carry
formatDimensionWrap(valueMm, unit) ==
    IF unit = "ft"
    THEN LET totalInches == RDiv(valueMm, MmPerInch)
             feet   == MathFloor(RDiv(totalInches, RInt(12)))
             inches == MathRound(RRem(totalInches, RInt(12))) % 12
         IN  ToString(feet) \o "'" \o ToString(inches) \o "\""
    ELSE formatDimensionBadDefault(valueMm, IF unit = "yd" THEN "mm" ELSE unit)

formatDimension(valueMm, unit) ==
    CASE unit = "mm" -> ToString(MathRound(valueMm)) \o "mm"
      [] unit = "cm" -> toFixed(RDiv(valueMm, RInt(10)), 1) \o "cm"
      [] unit = "m"  -> toFixed(RDiv(valueMm, RInt(1000)), 2) \o "m"
      [] unit = "in" -> toFixed(RDiv(valueMm, MmPerInch), 1) \o "\""
      [] unit = "ft" ->
            LET totalInches == RDiv(valueMm, MmPerInch)
                feet   == MathFloor(RDiv(totalInches, RInt(12)))
                inches == MathRound(RRem(totalInches, RInt(12)))
            IN  ToString(feet) \o "'" \o ToString(inches) \o "\""
      [] OTHER -> ToString(MathRound(valueMm)) \o "mm"

(***************************************************************************)
(* calculateScale                                                          *)
(***************************************************************************)
calculateScaleMax(drawingWidthMm, drawingHeightMm, viewportWidth, viewportHeight, padding) ==
    LET availableW == RSub(viewportWidth, RMul(padding, RInt(2)))
        availableH == RSub(viewportHeight, RMul(padding, RInt(2)))
        scaleX == RDiv(availableW, drawingWidthMm)
        scaleY == RDiv(availableH, drawingHeightMm)
    IN  RMax(scaleX, scaleY)

calculateScale(drawingWidthMm, drawingHeightMm, viewportWidth, viewportHeight, padding) ==
    LET availableW == RSub(viewportWidth, RMul(padding, RInt(2)))
        availableH == RSub(viewportHeight, RMul(padding, RInt(2)))
        scaleX == RDiv(availableW, drawingWidthMm)
        scaleY == RDiv(availableH, drawingHeightMm)
    IN  RMin(scaleX, scaleY)

(***************************************************************************)
(* Element renderers.  An element is a record keyed by the fields of its   *)
(* interface; an optional field that is absent is absent from the record.  *)
(* A renderer returns markup: <<>> for the empty string, else one node.    *)
(***************************************************************************)
Has(el, f) == f \in DOMAIN el
\* el.f || dflt for a string field
StrOr(el, f, dflt) == IF Has(el, f) /\ el[f] # "" THEN el[f] ELSE dflt
\* el.f || dflt for a number field
NumOr(el, f, dflt) == IF Has(el, f) /\ el[f].n # 0 THEN el[f] ELSE dflt

Sq(a) == RMul(a, a)

\* the corners of the rectangle around the segment (x1, y1)-(x2, y2) with
\* the half thickness (nx, ny) to either side
quadPoints(x1, y1, x2, y2, nx, ny) ==
    << <<SAdd(SRat(x1), nx), SAdd(SRat(y1), ny)>>,
       <<SAdd(SRat(x2), nx), SAdd(SRat(y2), ny)>>,
       <<SSub(SRat(x2), nx), SSub(SRat(y2), ny)>>,
       <<SSub(SRat(x1), nx), SSub(SRat(y1), ny)>> >>

\* the same from dx, dy and half the thickness: len = Math.sqrt(dx * dx +
\* dy * dy), nx = (-dy / len) * half, ny = (dx / len) * half; <<>> stands
\* for the early return when len === 0
quadAlong(x1, y1, x2, y2, dx, dy, half) ==
    LET len2 == RAdd(Sq(dx), Sq(dy))
    IN  IF IsZero(len2) THEN <<>>
        ELSE quadPoints(x1, y1, x2, y2,
                        SOverLen(RMul(RNeg(dy), half), len2),
                        SOverLen(RMul(dx, half), len2))

\* renderWall from the scaled endpoints and the thickness drawn
wallAt(wall, x1, y1, x2, y2, thickness) ==
    LET points == quadAlong(x1, y1, x2, y2, RSub(x2, x1), RSub(y2, y1),
                            RDiv(thickness, RInt(2)))
    IN  IF points = <<>> THEN <<>>
        ELSE << [tag |-> "polygon", id |-> wall.id, type |-> "wall",
                 points |-> points,
                 fill |-> "#2d2d2d", class |-> "drawing-element"] >>

renderWall(wall, scale) ==
    wallAt(wall, RMul(wall.x1, scale), RMul(wall.y1, scale),
           RMul(wall.x2, scale), RMul(wall.y2, scale),
           RMax(RMul(wall.thickness, scale), RInt(2)))

\* a door whose arc sweeps clockwise whatever its swing
renderDoorClockwise(door, scale) ==
    LET x == RMul(door.x, scale)
        y == RMul(door.y, scale)
        w == RMul(door.width, scale)
        swingDir == IF door.swing = "right" THEN 1 ELSE -1
    IN  << [tag |-> "g", id |-> door.id, type |-> "door",
            transform |-> [translate |-> <<x, y>>, rotate |-> door.angle],
            class |-> "drawing-element",
            track |-> [x1 |-> RInt(0), y1 |-> RInt(0), x2 |-> w,
                       y2 |-> RInt(0),
                       strokeWidth |-> RMax(RInt(4), RMul(RInt(8), scale))],
            leaf |-> [x1 |-> RInt(0), y1 |-> RInt(0), x2 |-> RInt(0),
                      y2 |-> RMul(w, RInt(swingDir))],
            arc |-> [from |-> <<RInt(0), RMul(w, RInt(swingDir))>>,
                     rx |-> w, ry |-> w, flags |-> "0,1",
                     to |-> <<w, RInt(0)>>]] >>

renderDoor(door, scale) ==
    LET x == RMul(door.x, scale)
        y == RMul(door.y, scale)
        w == RMul(door.width, scale)
        transform == [translate |-> <<x, y>>, rotate |-> door.angle]
        track == [x1 |-> RInt(0), y1 |-> RInt(0), x2 |-> w, y2 |-> RInt(0),
                  strokeWidth |-> RMax(RInt(4), RMul(RInt(8), scale))]
        swingDir == IF door.swing = "right" THEN 1 ELSE -1
        arcFlag == IF door.swing = "right" THEN "0,1" ELSE "0,0"
    IN  IF door.swing = "sliding"
        THEN << [tag |-> "g", id |-> door.id, type |-> "door",
                 transform |-> transform, class |-> "drawing-element",
                 track |-> track,
                 leaf1 |-> [x1 |-> RInt(0), y1 |-> RInt(-2),
                            x2 |-> RMul(w, Rat(6, 10)), y2 |-> RInt(-2)],
                 leaf2 |-> [x1 |-> RMul(w, Rat(4, 10)), y1 |-> RInt(2),
                            x2 |-> w, y2 |-> RInt(2)]] >>
        ELSE << [tag |-> "g", id |-> door.id, type |-> "door",
                 transform |-> transform, class |-> "drawing-element",
                 track |-> track,
                 leaf |-> [x1 |-> RInt(0), y1 |-> RInt(0), x2 |-> RInt(0),
                           y2 |-> RMul(w, RInt(swingDir))],
                 arc |-> [from |-> <<RInt(0), RMul(w, RInt(swingDir))>>,
                          rx |-> w, ry |-> w, flags |-> arcFlag,
                          to |-> <<w, RInt(0)>>]] >>

renderWindow(window, scale) ==
    LET x == RMul(window.x, scale)
        y == RMul(window.y, scale)
        w == RMul(window.width, scale)
    IN  << [tag |-> "g", id |-> window.id, type |-> "window",
            transform |-> [translate |-> <<x, y>>, rotate |-> window.angle],
            class |-> "drawing-element",
            track |-> [x2 |-> w,
                       strokeWidth |-> RMax(RInt(4), RMul(RInt(8), scale))],
            sill |-> <<[x2 |-> w, y |-> RInt(-3)], [x2 |-> w, y |-> RInt(3)]>>,
            caps |-> <<RInt(0), w>>,
            mullion |-> RDiv(w, RInt(2))] >>

\* the text rotation of a dimension: lines 165-166
labelRotationUnnormalised(dy, dx) == atan2Deg(dy, dx)

labelRotationOneSided(dy, dx) ==
    LET angle == atan2Deg(dy, dx)
    IN  IF angle > 90 THEN angle + 180 ELSE angle

\* Math.atan2 of a NaN is NaN, which neither comparison moves
labelRotation(dy, dx) ==
    LET angle == atan2Deg(dy, dx)
    IN  IF IsNaN(dy) \/ IsNaN(dx) THEN "NaN"
        ELSE IF angle > 90 \/ angle < -90 THEN angle + 180 ELSE angle

\* the label text taken from the length of the segment instead of value
displayTextMeasured(dim, unit) ==
    LET len2 == RAdd(Sq(RSub(dim.x2, dim.x1)), Sq(RSub(dim.y2, dim.y1)))
    IN  StrOr(dim, "label",
              formatDimension(RInt(ISqrt(len2.n \div len2.d)),
                              StrOr(dim, "unit", unit)))

\* dim.label || formatDimension(dim.value, dim.unit || unit)
displayText(dim, unit) ==
    StrOr(dim, "label", formatDimension(dim.value, StrOr(dim, "unit", unit)))

DimExt == 6
DimGap == 3
DimTickSize == 4

\* the group of a dimension from the ends of its base segment, the ends of
\* its dimension line, its unit normal (nx, ny), the midpoint (mx, my) of
\* the dimension line and the text rotation
dimensionNode(dim, unit, x1, y1, x2, y2, ox1, oy1, ox2, oy2, nx, ny, mx, my, angle) ==
    LET ext == RInt(DimExt)
        gap == RInt(DimGap)
        tickSize == RInt(DimTickSize)
        seg(ax, ay, bx, by) == [x1 |-> ax, y1 |-> ay, x2 |-> bx, y2 |-> by]
    IN  [tag |-> "g", id |-> dim.id, type |-> "dimension",
         class |-> "drawing-element dimension-element",
         ext1 |-> seg(SAdd(x1, SScale(nx, gap)), SAdd(y1, SScale(ny, gap)),
                      SAdd(ox1, SScale(nx, ext)), SAdd(oy1, SScale(ny, ext))),
         ext2 |-> seg(SAdd(x2, SScale(nx, gap)), SAdd(y2, SScale(ny, gap)),
                      SAdd(ox2, SScale(nx, ext)), SAdd(oy2, SScale(ny, ext))),
         dimLine |-> seg(ox1, oy1, ox2, oy2),
         tick1 |-> seg(SSub(ox1, SScale(nx, tickSize)),
                       SSub(oy1, SScale(ny, tickSize)),
                       SAdd(ox1, SScale(nx, tickSize)),
                       SAdd(oy1, SScale(ny, tickSize))),
         tick2 |-> seg(SSub(ox2, SScale(nx, tickSize)),
                       SSub(oy2, SScale(ny, tickSize)),
                       SAdd(ox2, SScale(nx, tickSize)),
                       SAdd(oy2, SScale(ny, tickSize))),
         rect |-> [x |-> SSub(mx, SRat(RInt(24))),
                   y |-> SSub(my, SRat(RInt(8))),
                   width |-> 48, height |-> 16,
                   rotate |-> <<angle, mx, my>>],
         text |-> [x |-> mx, y |-> SAdd(my, SRat(RInt(4))),
                   rotate |-> <<angle, mx, my>>,
                   text |-> displayText(dim, unit)]]

\* the offset points (ox1, oy1), (ox2, oy2) and the midpoint between them
dimensionOffset(dim, unit, x1, y1, x2, y2, ox1, oy1, ox2, oy2, nx, ny, angle) ==
    dimensionNode(dim, unit, x1, y1, x2, y2, ox1, oy1, ox2, oy2, nx, ny,
                  SScale(SAdd(ox1, ox2), Rat(1, 2)),
                  SScale(SAdd(oy1, oy2), Rat(1, 2)), angle)

\* from the unit normal (nx, ny) = (-dy / len, dx / len)
dimensionNormal(dim, unit, x1, y1, x2, y2, offset, nx, ny, angle) ==
    dimensionOffset(dim, unit, x1, y1, x2, y2,
                    SAdd(x1, SScale(nx, offset)), SAdd(y1, SScale(ny, offset)),
                    SAdd(x2, SScale(nx, offset)), SAdd(y2, SScale(ny, offset)),
                    nx, ny, angle)

\* from dx and dy; <<>> stands for the early return when len === 0
dimensionAlong(dim, unit, x1, y1, x2, y2, offset, dx, dy) ==
    LET len2 == RAdd(Sq(dx), Sq(dy))
    IN  IF IsZero(len2) THEN <<>>
        ELSE << dimensionNormal(dim, unit, SRat(x1), SRat(y1), SRat(x2),
                                SRat(y2), offset, SOverLen(RNeg(dy), len2),
                                SOverLen(dx, len2), labelRotation(dy, dx)) >>

\* from the scaled endpoints and the scaled offset
dimensionAt(dim, unit, x1, y1, x2, y2, offset) ==
    dimensionAlong(dim, unit, x1, y1, x2, y2, offset, RSub(x2, x1),
                   RSub(y2, y1))

renderDimension(dim, scale, unit) ==
    dimensionAt(dim, unit, RMul(dim.x1, scale), RMul(dim.y1, scale),
                RMul(dim.x2, scale), RMul(dim.y2, scale),
                RMul(dim.offset, scale))

renderNote(note, scale) ==
    << [tag |-> "g", id |-> note.id, type |-> "note",
        class |-> "drawing-element",
        text |-> [x |-> RMul(note.x, scale), y |-> RMul(note.y, scale),
                  fontSize |-> NumOr(note, "fontSize", RInt(10)),
                  text |-> note.text]] >>

renderLine(line, scale) ==
    << [tag |-> "line", id |-> line.id, type |-> "line",
        x1 |-> RMul(line.x1, scale), y1 |-> RMul(line.y1, scale),
        x2 |-> RMul(line.x2, scale), y2 |-> RMul(line.y2, scale),
        strokeWidth |-> NumOr(line, "strokeWidth", RInt(1)),
        dasharray |-> IF Has(line, "dashed") /\ line.dashed
                      THEN "6,3" ELSE "",
        class |-> "drawing-element"] >>

renderRect(rect, scale) ==
    LET x == RMul(rect.x, scale)
        y == RMul(rect.y, scale)
        w == RMul(rect.width, scale)
        h == RMul(rect.height, scale)
    IN  << [tag |-> "g", id |-> rect.id, type |-> "rect",
            class |-> "drawing-element",
            rect |-> [x |-> x, y |-> y, width |-> w, height |-> h,
                      fill |-> StrOr(rect, "fill", "none")],
            label |-> IF StrOr(rect, "label", "") # ""
                      THEN << [x |-> RAdd(x, RDiv(w, RInt(2))),
                               y |-> RAdd(RAdd(y, RDiv(h, RInt(2))), RInt(4)),
                               text |-> rect.label] >>
                      ELSE <<>>] >>

\* a structural member handed to the wall renderer, width as thickness
renderStructuralAsWall(el, scale) ==
    renderWall([type |-> "wall", id |-> el.id, x1 |-> el.x1, y1 |-> el.y1,
                x2 |-> el.x2, y2 |-> el.y2, thickness |-> el.width], scale)

\* renderStructural from the scaled endpoints and the scaled width
structuralAt(el, x1, y1, x2, y2, w) ==
    LET half == RDiv(w, RInt(2))
        points == quadAlong(x1, y1, x2, y2, RSub(x2, x1), RSub(y2, y1), half)
        fillColor == IF el.type = "beam" THEN "#d4a574"
                     ELSE IF el.type = "joist" THEN "#c9a96e" ELSE "#b8956a"
    IN  IF points = <<>> THEN <<>>
        ELSE << [tag |-> "g", id |-> el.id, type |-> el.type,
                 class |-> "drawing-element",
                 points |-> points,
                 fill |-> fillColor,
                 hatch |-> [x1 |-> x1, y1 |-> y1, x2 |-> x2, y2 |-> y2],
                 label |-> IF StrOr(el, "label", "") # ""
                           THEN << [x |-> RDiv(RAdd(x1, x2), RInt(2)),
                                    y |-> RSub(RSub(RDiv(RAdd(y1, y2), RInt(2)),
                                                    half), RInt(4)),
                                    text |-> el.label] >>
                           ELSE <<>>] >>

\* a member drawn as deep as its depth field says, not as wide as its width
renderStructuralDeep(el, scale) ==
    structuralAt(el, RMul(el.x1, scale), RMul(el.y1, scale),
                 RMul(el.x2, scale), RMul(el.y2, scale),
                 RMul(el.depth, scale))

renderStructural(el, scale) ==
    structuralAt(el, RMul(el.x1, scale), RMul(el.y1, scale),
                 RMul(el.x2, scale), RMul(el.y2, scale),
                 RMul(el.width, scale))

\* The loop of renderStairs appends one <line .../> to a string for every
\* i = 0, 1, ... with i <= stairs.steps.  A string has a longest length the
\* engine allocates; the append that passes it throws a RangeError (Invalid
\* string length).  MaxTreadLines is the number of tread lines that still
\* fit, scaled down from the engine's tens of millions.
MaxTreadLines == 5
RangeError == <<[raised |-> "RangeError: Invalid string length"]>>
\* the call threw instead of returning markup
Raised(markup) == markup # <<>> /\ "raised" \in DOMAIN markup[1]

\* the loop stopping one short: i < stairs.steps
renderStairsShort(stairs, scale) ==
    LET x == RMul(stairs.x, scale)
        y == RMul(stairs.y, scale)
        w == RMul(stairs.width, scale)
        l == RMul(stairs.length, scale)
        stepDepth == RDiv(l, stairs.steps)
        lines == [k \in 1..MathFloor(stairs.steps) |->
                    LET sy == RAdd(y, RMul(RInt(k - 1), stepDepth))
                    IN  [x1 |-> x, y1 |-> sy, x2 |-> RAdd(x, w), y2 |-> sy]]
        cx == RAdd(x, RDiv(w, RInt(2)))
        cy == RAdd(y, RDiv(l, RInt(2)))
    IN  << [tag |-> "g", id |-> stairs.id, type |-> "stairs",
            transform |-> [rotate |-> <<stairs.angle, cx, cy>>],
            class |-> "drawing-element",
            rect |-> [x |-> x, y |-> y, width |-> w, height |-> l],
            lines |-> lines,
            arrow |-> [x1 |-> cx, y1 |-> cy, x2 |-> cx,
                       y2 |-> IF stairs.direction = "up"
                              THEN RAdd(y, RInt(10))
                              ELSE RSub(RAdd(y, l), RInt(10))],
            text |-> [x |-> cx, y |-> cy,
                      text |-> IF stairs.direction = "up" THEN "UP"
                               ELSE "DN"]] >>

\* the loop runs for i = 0 .. floor(steps), and not at all when steps < 0
renderStairs(stairs, scale) ==
    LET x == RMul(stairs.x, scale)
        y == RMul(stairs.y, scale)
        w == RMul(stairs.width, scale)
        l == RMul(stairs.length, scale)
        stepDepth == RDiv(l, stairs.steps)
        n == MathFloor(stairs.steps)
        lines == [k \in 1..(n + 1) |->
                    LET sy == RAdd(y, RMul(RInt(k - 1), stepDepth))
                    IN  [x1 |-> x, y1 |-> sy, x2 |-> RAdd(x, w), y2 |-> sy]]
        arrowY == IF stairs.direction = "up" THEN RAdd(y, RInt(10))
                  ELSE RSub(RAdd(y, l), RInt(10))
        cx == RAdd(x, RDiv(w, RInt(2)))
        cy == RAdd(y, RDiv(l, RInt(2)))
    IN  IF n + 1 > MaxTreadLines THEN RangeError ELSE
        << [tag |-> "g", id |-> stairs.id, type |-> "stairs",
            transform |-> [rotate |-> <<stairs.angle, cx, cy>>],
            class |-> "drawing-element",
            rect |-> [x |-> x, y |-> y, width |-> w, height |-> l],
            lines |-> lines,
            arrow |-> [x1 |-> cx, y1 |-> cy, x2 |-> cx, y2 |-> arrowY],
            text |-> [x |-> cx, y |-> cy,
                      text |-> IF stairs.direction = "up" THEN "UP"
                               ELSE "DN"]] >>

\* a dispatch whose default case throws instead of returning ""
renderElementStrict(el, scale, unit) ==
    CASE el.type = "wall" -> renderWall(el, scale)
      [] el.type = "door" -> renderDoor(el, scale)
      [] el.type = "window" -> renderWindow(el, scale)
      [] el.type = "dimension" -> renderDimension(el, scale, unit)
      [] el.type = "note" -> renderNote(el, scale)
      [] el.type = "line" -> renderLine(el, scale)
      [] el.type = "rect" -> renderRect(el, scale)
      [] el.type \in {"beam", "joist", "stud"} -> renderStructural(el, scale)
      [] el.type = "stairs" -> renderStairs(el, scale)
      [] OTHER -> <<[raised |-> "Error: unknown element type"]>>

renderElement(el, scale, unit) ==
    CASE el.type = "wall" -> renderWall(el, scale)
      [] el.type = "door" -> renderDoor(el, scale)
      [] el.type = "window" -> renderWindow(el, scale)
      [] el.type = "dimension" -> renderDimension(el, scale, unit)
      [] el.type = "note" -> renderNote(el, scale)
      [] el.type = "line" -> renderLine(el, scale)
      [] el.type = "rect" -> renderRect(el, scale)
      [] el.type \in {"beam", "joist", "stud"} -> renderStructural(el, scale)
      [] el.type = "stairs" -> renderStairs(el, scale)
      [] OTHER -> <<>>

(***************************************************************************)
(* The title block.  updatedAt is an instant in clock ticks; the block     *)
(* prints its calendar date, new Date(updatedAt).toLocaleDateString().     *)
(***************************************************************************)
TicksPerDay == 2

toLocaleDateString(t) == "day " \o ToString(t \div TicksPerDay)

\* drawing.type.replace("_", " ").toUpperCase()
typeLabel(type) ==
    CASE type = "floor_plan" -> "FLOOR PLAN"
      [] type = "elevation"  -> "ELEVATION"
      [] type = "section"    -> "SECTION"
      [] type = "detail"     -> "DETAIL"
      [] type = "site_plan"  -> "SITE PLAN"

TitleBlockH == 60
TitleBlockW == 220

renderTitleBlockClock(d, svgWidth, svgHeight) ==
    [tag |-> "g", class |-> "title-block",
     x |-> RSub(RSub(svgWidth, RInt(TitleBlockW)), RInt(10)),
     y |-> RSub(RSub(svgHeight, RInt(TitleBlockH)), RInt(10)),
     title |-> d.title, scale |-> d.scale, unit |-> d.unit,
     drawingType |-> typeLabel(d.type),
     drawnBy |-> StrOr(d, "drawnBy", "SketchTool"),
     date |-> toLocaleDateString(now)]

renderTitleBlock(d, svgWidth, svgHeight) ==
    [tag |-> "g", class |-> "title-block",
     x |-> RSub(RSub(svgWidth, RInt(TitleBlockW)), RInt(10)),
     y |-> RSub(RSub(svgHeight, RInt(TitleBlockH)), RInt(10)),
     title |-> d.title, scale |-> d.scale, unit |-> d.unit,
     drawingType |-> typeLabel(d.type),
     drawnBy |-> StrOr(d, "drawnBy", "SketchTool"),
     date |-> toLocaleDateString(d.updatedAt)]

(***************************************************************************)
(* generateSVG                                                             *)
(***************************************************************************)
Padding == 60

RECURSIVE SelectIdx(_, _, _)
\* elements.filter((e) => (e.type === "dimension") === isDim), as the
\* positions it keeps, in order, from position i on
SelectIdx(elements, i, isDim) ==
    IF i > Len(elements) THEN <<>>
    ELSE (IF (elements[i].type = "dimension") = isDim THEN <<i>> ELSE <<>>)
            \o SelectIdx(elements, i + 1, isDim)

renderOrderUnsorted(elements) == [i \in 1..Len(elements) |-> i]

renderOrderAllThenDims(elements) ==
    [i \in 1..Len(elements) |-> i] \o SelectIdx(elements, 1, TRUE)

\* [...nonDimElements, ...dimElements]: the positions of drawing.elements in
\* the order in which they are handed to renderElement
renderOrder(elements) ==
    LET nonDimElements == SelectIdx(elements, 1, FALSE)
        dimElements == SelectIdx(elements, 1, TRUE)
    IN  nonDimElements \o dimElements

NL == [tag |-> "\n"]

RECURSIVE Join(_, _)
\* Array.prototype.join("\n") of markup strings
Join(strs, i) ==
    IF i > Len(strs) THEN <<>>
    ELSE IF i = Len(strs) THEN strs[i]
    ELSE strs[i] \o <<NL>> \o Join(strs, i + 1)

generateSVG(d, viewportWidth, viewportHeight) ==
    LET padding == RInt(Padding)
        scale == calculateScale(d.width, d.height, viewportWidth,
                                viewportHeight, padding)
        order == renderOrder(d.elements)
        strs == [k \in 1..Len(order) |->
                    renderElement(d.elements[order[k]], scale, d.unit)]
        children == Join(strs, 1)
        thrown == SelectSeq(children, LAMBDA node : "raised" \in DOMAIN node)
    \* what a renderer throws leaves generateSVG uncaught
    IN  IF thrown # <<>> THEN thrown[1] ELSE
        [tag |-> "svg",
         viewBox |-> <<RInt(0), RInt(0), viewportWidth, viewportHeight>>,
         width |-> viewportWidth, height |-> viewportHeight,
         class |-> "sketch-svg",
         border |-> [x |-> 5, y |-> 5,
                     width |-> RSub(viewportWidth, RInt(10)),
                     height |-> RSub(viewportHeight, RInt(10))],
         grid |-> [x |-> 6, y |-> 6,
                   width |-> RSub(viewportWidth, RInt(12)),
                   height |-> RSub(viewportHeight, RInt(12))],
         content |-> [translate |-> <<padding, padding>>,
                      children |-> children],
         titleBlock |-> renderTitleBlock(d, viewportWidth, viewportHeight)]

inputAfterRenderSorted(d) ==
    [d EXCEPT !.elements =
        [k \in 1..Len(d.elements) |-> d.elements[renderOrder(d.elements)[k]]]]

\* the Drawing object after generateSVG(d, ...) has returned: filter, the
\* spread and map build new arrays and nothing is assigned to d
inputAfterRender(d) == d

(***************************************************************************)
(* Inputs: the elements and drawings the model draws from.  Lengths are in *)
(* millimetres, as the generator returns them.                             *)
(***************************************************************************)
MaxRenderElems == 3
MaxTime == 2

N(k) == RInt(k)

Wall1 == [type |-> "wall", id |-> "w1", x1 |-> N(0), y1 |-> N(0),
          x2 |-> N(3000), y2 |-> N(0), thickness |-> N(100)]
\* a line whose two endpoints are equal
Line0 == [type |-> "line", id |-> "l1", x1 |-> N(1500), y1 |-> N(1500),
          x2 |-> N(1500), y2 |-> N(1500)]
Dim1 == [type |-> "dimension", id |-> "d1", x1 |-> N(0), y1 |-> N(0),
         x2 |-> N(3000), y2 |-> N(0), value |-> N(3000), unit |-> "mm",
         offset |-> N(-300)]
\* runs right to left and downwards: its segment angle is above 90 degrees
Dim2 == [type |-> "dimension", id |-> "d2", x1 |-> N(3000), y1 |-> N(0),
         x2 |-> N(0), y2 |-> N(2000), value |-> N(3600), unit |-> "m",
         offset |-> N(300)]
\* carries the id of Dim1 (the generator's ids are not checked for
\* uniqueness) and no unit of its own
Dim1b == [type |-> "dimension", id |-> "d1", x1 |-> N(0), y1 |-> N(0),
          x2 |-> N(0), y2 |-> N(2000), value |-> N(2000),
          offset |-> N(300)]

ElementPool == {Wall1, Line0, Dim1, Dim2, Dim1b}

SeqsUpTo(S, n) == UNION {[1..k -> S] : k \in 0..n}

DrawingOf(elements, t) ==
    [id |-> "drawing-1", type |-> "floor_plan", title |-> "Site Sketch",
     unit |-> "mm", scale |-> "1:50", elements |-> elements,
     width |-> N(6000), height |-> N(4000),
     createdAt |-> t, updatedAt |-> t, drawnBy |-> "SketchTool AI"]

\* useState({ width: 800, height: 600 })
InitialViewport == [width |-> N(800), height |-> N(600)]

Viewports == {InitialViewport, [width |-> N(320), height |-> N(300)],
              [width |-> N(1200), height |-> N(900)]}

(***************************************************************************)
(* SpecRender: the engine under any caller.  A drawing is fixed; render    *)
(* calls with any viewport follow one another while the clock runs.        *)
(***************************************************************************)
engineVars == <<fmtIn, fmtOut, scaleIn, scaleOut, elIn, elOut>>
viewerVars == <<editingDimension, editValue, saveResult>>
zoomVars == <<zoom, panOffset, isPanning, panStart, lastTouchDist>>
routeVars == <<routeIn, routeOut>>
pageVars == <<step, photo, messages, conversation, isLoading, isGenerating,
              analysis, readyToGenerate, requests, sent, input, isListening>>
\* the state of the parts that the engine and the dimension editor leave alone
restVars == <<zoomVars, routeVars, pageVars>>

\* SketchPage, SketchChat and VoiceInput as they are mounted
PageIdle ==
    /\ step = "capture"
    /\ photo = Null
    /\ messages = <<>>
    /\ conversation = <<>>
    /\ isLoading = FALSE
    /\ isGenerating = FALSE
    /\ analysis = Null
    /\ readyToGenerate = FALSE
    /\ requests = {}
    /\ sent = 0
    /\ input = ""
    /\ isListening = FALSE

\* a viewer just mounted shows the drawing at zoom 1, not panned; no
\* request to the generate route has been made
RestIdle ==
    /\ saveResult = "none"
    /\ zoom = RInt(1)
    /\ panOffset = [x |-> 0, y |-> 0]
    /\ isPanning = FALSE
    /\ panStart = [x |-> 0, y |-> 0]
    /\ lastTouchDist = RInt(0)
    /\ routeIn = Null /\ routeOut = Null
    /\ PageIdle

InitRender ==
    /\ RestIdle
    /\ drawing \in {DrawingOf(es, 0) : es \in SeqsUpTo(ElementPool, MaxRenderElems)}
    /\ viewportSize = InitialViewport
    /\ svgString = Null
    /\ renderLog = Null
    /\ now = 0
    /\ editingDimension = Null /\ editValue = <<>>
    /\ fmtIn = Null /\ fmtOut = <<>> /\ scaleIn = Null /\ scaleOut = <<>>
    /\ elIn = Null /\ elOut = <<>>

\* one call generateSVG(drawing, vp.width, vp.height)
Render(vp) ==
    LET out == generateSVG(drawing, vp.width, vp.height)
    IN  /\ svgString' = out
        /\ viewportSize' = vp
        /\ drawing' = inputAfterRender(drawing)
        /\ renderLog' =
              IF renderLog = Null
              THEN [drawing |-> drawing, viewport |-> vp, out |-> out,
                    between |-> FALSE]
              ELSE [renderLog EXCEPT !.between =
                        @ \/ vp # renderLog.viewport
                          \/ drawing # renderLog.drawing]
        /\ UNCHANGED <<now, viewerVars, restVars, engineVars>>

Tick ==
    /\ now < MaxTime
    /\ now' = now + 1
    /\ UNCHANGED <<drawing, viewportSize, svgString, renderLog, viewerVars,
                   restVars, engineVars>>

NextRender == Tick \/ \E vp \in Viewports : Render(vp)

SpecRender == InitRender /\ [][NextRender]_vars

Rendered == svgString # Null
Children == svgString.content.children
IsElementNode(node) == "type" \in DOMAIN node
IsDimensionNode(node) == IsElementNode(node) /\ node.type = "dimension"

\* C1: in the markup generateSVG emits, every dimension element's markup
\* comes strictly after every non-dimension element's markup.
C1_ZOrder ==
    Rendered =>
        \A p, q \in 1..Len(Children) :
            (IsDimensionNode(Children[p])
               /\ IsElementNode(Children[q]) /\ ~IsDimensionNode(Children[q]))
            => q < p

\* a rendered drawing with a dimension before and after a non-dimension
\* element, all three with markup
C1_Witness ==
    /\ Rendered
    /\ \E i, j, k \in 1..Len(drawing.elements) :
          /\ i < j /\ j < k
          /\ drawing.elements[i].type = "dimension"
          /\ drawing.elements[j] = Wall1
          /\ drawing.elements[k].type = "dimension"
    /\ \E p, q \in 1..Len(Children) :
          IsDimensionNode(Children[p]) /\ IsElementNode(Children[q])
             /\ ~IsDimensionNode(Children[q])

\* C2: generateSVG hands every element of drawing.elements to renderElement
\* exactly once, and the order is a stable partition: non-dimension elements
\* keep their relative order, as do the dimension elements, and the n strings
\* are joined by n - 1 separators.
C2_StablePartition ==
    Rendered =>
        LET es == drawing.elements
            n == Len(es)
            o == renderOrder(es)
            isDim(i) == es[i].type = "dimension"
        IN  /\ Len(o) = n
            /\ \A i \in 1..n : Cardinality({k \in 1..Len(o) : o[k] = i}) = 1
            /\ \A a, b \in 1..Len(o) :
                  (a < b /\ isDim(o[a]) = isDim(o[b])) => o[a] < o[b]
            /\ Cardinality({p \in 1..Len(Children) : Children[p] = NL})
                  = (IF n = 0 THEN 0 ELSE n - 1)
            /\ Cardinality({p \in 1..Len(Children) : IsElementNode(Children[p])})
                  = Cardinality({i \in 1..n :
                        renderElement(es[i], calculateScale(drawing.width,
                            drawing.height, viewportSize.width,
                            viewportSize.height, RInt(Padding)),
                            drawing.unit) # <<>>})

\* a rendered drawing of three elements, dimensions and others interleaved
C2_Witness ==
    /\ Rendered
    /\ Len(drawing.elements) = 3
    /\ drawing.elements[1].type = "dimension"
    /\ drawing.elements[2].type # "dimension"
    /\ drawing.elements[3].type = "dimension"
    /\ renderOrder(drawing.elements) = <<2, 1, 3>>

SegPoints == {<<0, 0>>, <<1700, 0>>, <<0, 300>>, <<1700, 300>>}
SegKinds == {"wall", "dimension", "line", "beam", "joist", "stud"}

\* 1200 x 900 and 320 x 300 viewports on a 6000 x 4000 drawing, and the
\* negative factor of a viewport narrower than twice the padding
Scales == {Rat(9, 50), Rat(1, 30), Rat(-1, 30)}

SegElement(kind, p, q) ==
    LET seg == [type |-> kind, id |-> "e1", x1 |-> N(p[1]), y1 |-> N(p[2]),
                x2 |-> N(q[1]), y2 |-> N(q[2])]
    IN  CASE kind = "wall" -> seg @@ [thickness |-> N(100)]
          [] kind = "dimension" ->
                seg @@ [value |-> N(1726), unit |-> "mm", offset |-> N(-300)]
          [] kind = "line" -> seg
          [] OTHER -> seg @@ [width |-> N(45), depth |-> N(90)]

InitElement ==
    /\ RestIdle
    /\ elIn \in {[el |-> SegElement(k, p, q), scale |-> sc, unit |-> "mm"] :
                    k \in SegKinds, p \in SegPoints, q \in SegPoints,
                    sc \in Scales}
    /\ elOut = <<>>
    /\ drawing = Null /\ viewportSize = InitialViewport /\ svgString = Null
    /\ renderLog = Null /\ now = 0
    /\ editingDimension = Null /\ editValue = <<>>
    /\ fmtIn = Null /\ fmtOut = <<>> /\ scaleIn = Null /\ scaleOut = <<>>

\* elOut holds the string returned, once the call has been made
RenderOne ==
    /\ elOut = <<>>
    /\ elOut' = <<renderElement(elIn.el, elIn.scale, elIn.unit)>>
    /\ UNCHANGED <<drawing, viewportSize, svgString, renderLog, now,
                   viewerVars, restVars, fmtIn, fmtOut, scaleIn, scaleOut, elIn>>

NextElement == RenderOne

SpecElement == InitElement /\ [][NextElement]_vars

ElDone == elOut # <<>>
ElDegenerate == elIn.el.x1 = elIn.el.x2 /\ elIn.el.y1 = elIn.el.y2
\* the dimension of elIn has been rendered to markup
DimRendered == ElDone /\ elIn.el.type = "dimension" /\ elOut[1] # <<>>
\* the angle written into the label's rotate(...)
Rotation == elOut[1][1].text.rotate[1]
\* the angle of the scaled segment, Math.atan2(dy, dx) in degrees
SegmentAngle ==
    atan2Deg(RMul(RSub(elIn.el.y2, elIn.el.y1), elIn.scale),
             RMul(RSub(elIn.el.x2, elIn.el.x1), elIn.scale))

\* C3 (as claimed): an element of a segment kind (wall, dimension, line,
\* beam, joist, stud) whose two endpoints are equal renders to the empty
\* string, at every scale.
C3_DegenerateEmpty == (ElDone /\ ElDegenerate) => elOut[1] = <<>>

Reversed(el) ==
    [el EXCEPT !.x1 = el.x2, !.y1 = el.y2, !.x2 = el.x1, !.y2 = el.y1]
\* r is, modulo 360, an angle of [-90, 90]
Upright(r) == ((r + 90) % 360) <= 180

\* C8: dimension text is never upside-down: whichever endpoint of a
\* non-degenerate dimension comes first, the label rotation is equal modulo
\* 360 to an angle in [-90, 90].
C8_NeverUpsideDown ==
    DimRendered =>
        LET back == renderElement(Reversed(elIn.el), elIn.scale, elIn.unit)
        IN  /\ Upright(Rotation)
            /\ back # <<>>
            /\ Upright(back[1].text.rotate[1])
            /\ back[1].rect.rotate[1] = back[1].text.rotate[1]
            /\ elOut[1][1].rect.rotate[1] = Rotation

\* a rendered dimension that points down and to the left (its angle is
\* below -90) and whose reversal points up and to the right
C8_Witness ==
    /\ DimRendered
    /\ SegmentAngle < -90
    /\ Rotation = SegmentAngle + 180
    /\ renderElement(Reversed(elIn.el), elIn.scale, elIn.unit)[1].text.rotate[1]
          = Rotation


StructuralKinds == {"beam", "joist", "stud"}
StructuralDepths == {N(90), N(140), N(0)}
StructuralLabels == {<<>>, <<"B1">>}

\* the structural member of elIn with the label given, if any
Member(label) ==
    IF label = <<>> THEN elIn.el ELSE elIn.el @@ [label |-> label[1]]

\* C22: a structural member and any member that differs from it only in
\* kind and depth render, at the same scale, either both to nothing or to
\* markup that is equal once the kind tag and the fill colour of the second
\* are replaced by those of the first; where the kinds are equal as well,
\* the markup is equal, so that depth changes nothing.
C22_KindAndDepthOnly ==
    (ElDone /\ elIn.el.type \in StructuralKinds) =>
        \A kind \in StructuralKinds, depth \in StructuralDepths,
           label \in StructuralLabels :
            LET a == Member(label)
                b == [a EXCEPT !.type = kind, !.depth = depth]
                outA == renderElement(a, elIn.scale, elIn.unit)
                outB == renderElement(b, elIn.scale, elIn.unit)
            IN  /\ label = <<>> => outA = elOut[1]
                /\ (outA = <<>>) <=> (outB = <<>>)
                /\ kind = a.type => outB = outA
                /\ outA # <<>> =>
                      /\ Len(outA) = 1 /\ Len(outB) = 1
                      /\ outB[1].type = kind
                      /\ [outB[1] EXCEPT !.type = outA[1].type,
                                         !.fill = outA[1].fill] = outA[1]

\* a beam 90 deep has been rendered, and a stud 140 deep along the same
\* segment differs from it in kind tag and fill colour
C22_Witness ==
    /\ ElDone /\ elIn.el.type = "beam" /\ elOut[1] # <<>>
    /\ elIn.el.depth = N(90)
    /\ LET stud == renderElement([elIn.el EXCEPT !.type = "stud",
                                                 !.depth = N(140)],
                                 elIn.scale, elIn.unit)
       IN  /\ stud[1].fill = "#b8956a" /\ elOut[1][1].fill = "#d4a574"
           /\ stud[1].points = elOut[1][1].points


(***************************************************************************)
(* SpecKinds: renderElement applied once to one element of any kind the    *)
(* dispatch knows, in several shapes of each, at any of the scales and     *)
(* with either drawing unit.                                               *)
(***************************************************************************)
\* segments (x1, y1, x2, y2): along x, a 3-4-5 diagonal, straight up, and
\* one whose length is not rational
DimSegments == {<<0, 0, 3000, 0>>, <<0, 0, 3000, 4000>>, <<0, 2000, 0, 0>>,
                <<1700, 0, 0, 300>>}
DimOffsets == {N(-300), N(300)}
\* a label that is absent (no field), empty, or a text
DimLabels == {<<>>, <<"">>, <<"3.0 m">>}
\* a unit of the element's own, or none
DimUnits == {<<>>, <<"ft">>}

DimElement(g, offset, value, label, unit) ==
    [type |-> "dimension", id |-> "e1", x1 |-> N(g[1]), y1 |-> N(g[2]),
     x2 |-> N(g[3]), y2 |-> N(g[4]), value |-> value, offset |-> offset]
      @@ (IF label = <<>> THEN <<>> ELSE [label |-> label[1]])
      @@ (IF unit = <<>> THEN <<>> ELSE [unit |-> unit[1]])

DimElements ==
    {DimElement(g, o, N(3000), l, u) :
        g \in DimSegments, o \in DimOffsets, l \in DimLabels, u \in DimUnits}
    \cup {DimElement(<<0, 0, 3000, 0>>, N(300), Rat(9144, 10), l, u) :
            l \in DimLabels, u \in DimUnits}

\* flights of 1 to 4 steps, 5400 mm, 1000 mm and 500 mm long
StairSteps == 1..(MaxTreadLines - 1)
StairLengths == {N(5400), N(1000), N(500)}
StairsElement(steps, length, direction) ==
    [type |-> "stairs", id |-> "e1", x |-> N(600), y |-> N(300),
     width |-> N(900), length |-> length, steps |-> steps, angle |-> N(90),
     direction |-> direction]

StairsElements ==
    {StairsElement(N(k), l, dir) :
        k \in StairSteps, l \in StairLengths, dir \in {"up", "down"}}

PointElement(kind) ==
    [type |-> kind, id |-> "e1", x |-> N(600), y |-> N(300)]

OtherElements ==
    {SegElement(k, <<0, 0>>, <<1700, 300>>) : k \in SegKinds \ {"dimension"}}
    \cup {SegElement("joist", <<0, 0>>, <<1700, 0>>) @@ [label |-> "J1"],
          SegElement("line", <<0, 0>>, <<0, 300>>)
             @@ [dashed |-> TRUE, strokeWidth |-> N(2)]}
    \cup {PointElement("door") @@ [width |-> N(820), swing |-> sw,
                                   angle |-> N(0)] :
             sw \in {"left", "right", "double", "sliding"}}
    \cup {PointElement("window") @@ [width |-> N(1200), angle |-> N(90)],
          PointElement("note") @@ [text |-> "existing slab"],
          PointElement("note") @@ [text |-> "FFL", fontSize |-> N(12)],
          PointElement("rect") @@ [width |-> N(900), height |-> N(600)],
          PointElement("rect") @@ [width |-> N(900), height |-> N(600),
                                   label |-> "WC", fill |-> "#eee"]}

KindElements == DimElements \cup StairsElements \cup OtherElements
DrawingUnits == {"mm", "m"}

InitKinds ==
    /\ RestIdle
    /\ elIn \in [el : KindElements, scale : Scales, unit : DrawingUnits]
    /\ elOut = <<>>
    /\ drawing = Null /\ viewportSize = InitialViewport /\ svgString = Null
    /\ renderLog = Null /\ now = 0
    /\ editingDimension = Null /\ editValue = <<>>
    /\ fmtIn = Null /\ fmtOut = <<>> /\ scaleIn = Null /\ scaleOut = <<>>

SpecKinds == InitKinds /\ [][NextElement]_vars

\* the root of the markup returned for elIn
Root == elOut[1][1]


\* C14: the root of the non-empty markup of an element of a known kind
\* carries data-id = the element's id, data-type = the element's kind and the
\* class drawing-element; it carries the class dimension-element as well
\* exactly when the kind is dimension.
C14_RootAttributes ==
    (ElDone /\ elOut[1] # <<>>) =>
        /\ Len(elOut[1]) = 1
        /\ Root.id = elIn.el.id
        /\ Root.type = elIn.el.type
        /\ Root.class = IF elIn.el.type = "dimension"
                        THEN "drawing-element dimension-element"
                        ELSE "drawing-element"

\* a joist has been rendered to a group that carries its kind
C14_Witness ==
    /\ ElDone /\ elOut[1] # <<>>
    /\ elIn.el.type = "joist"
    /\ Root.type = "joist" /\ Root.id = "e1"
    /\ Root.class = "drawing-element"


\* C16 (as claimed): the label text of a rendered dimension is the element's
\* label whenever the element has one, whatever it holds, and otherwise
\* formatDimension(value, u) with u the element's unit if it has one and the
\* drawing's unit if not.
C16_LabelText ==
    DimRendered =>
        Root.text.text =
            IF Has(elIn.el, "label") THEN elIn.el.label
            ELSE formatDimension(elIn.el.value,
                                 IF Has(elIn.el, "unit") THEN elIn.el.unit
                                 ELSE elIn.unit)

\* a and b have the same value, the same unit or none, the same label or none
SameMeasurement(a, b) ==
    /\ a.value = b.value
    /\ Has(a, "unit") = Has(b, "unit")
    /\ Has(a, "unit") => a.unit = b.unit
    /\ Has(a, "label") = Has(b, "label")
    /\ Has(a, "label") => a.label = b.label

\* C17: the text a dimension shows does not depend on its geometry: any other
\* non-degenerate dimension with the same value, unit and label shows the same
\* text in the same drawing, whatever its endpoints, its offset and the scale.
C17_GeometryIndependent ==
    DimRendered =>
        \A other \in DimElements, sc \in Scales :
            SameMeasurement(elIn.el, other) =>
                LET out == renderElement(other, sc, elIn.unit)
                IN  out # <<>> /\ out[1].text.text = Root.text.text

\* a dimension drawn along a 5000 mm diagonal shows its value, 3000 mm, as
\* does one with the same value along a 2000 mm vertical at another scale
C17_Witness ==
    /\ DimRendered
    /\ elIn.el = DimElement(<<0, 0, 3000, 4000>>, N(-300), N(3000), <<>>, <<>>)
    /\ elIn.scale = Rat(1, 30) /\ elIn.unit = "mm"
    /\ Root.text.text = "3000mm"
    /\ renderElement(DimElement(<<0, 2000, 0, 0>>, N(300), N(3000), <<>>, <<>>),
                     Rat(9, 50), "mm")[1].text.text = "3000mm"

\* |a| for a finite number
RAbs(a) == IF a.n < 0 THEN RNeg(a) ELSE a
\* the extension line ext runs from the base endpoint (px, py) towards the
\* end (ox, oy) of the dimension line: it starts 3 units from the base
\* endpoint and ends 6 units past the dimension line, |off| units away
ExtensionAsClaimed(ext, px, py, ox, oy, off) ==
    /\ SScale(SSub(ext.x1, SRat(px)), off) = SScale(SSub(ox, SRat(px)), N(DimGap))
    /\ SScale(SSub(ext.y1, SRat(py)), off) = SScale(SSub(oy, SRat(py)), N(DimGap))
    /\ SScale(SSub(ext.x2, ox), off) = SScale(SSub(ox, SRat(px)), N(DimExt))
    /\ SScale(SSub(ext.y2, oy), off) = SScale(SSub(oy, SRat(py)), N(DimExt))

\* C18 (as claimed): for a non-degenerate dimension with a positive or a
\* negative offset, each extension line starts 3 units from the base endpoint
\* on the side of the dimension line and ends 6 units beyond the dimension
\* line, away from the base segment.
C18_ExtensionLines ==
    DimRendered =>
        LET sc == elIn.scale
            off == RAbs(RMul(elIn.el.offset, sc))
        IN  /\ ExtensionAsClaimed(Root.ext1, RMul(elIn.el.x1, sc),
                                  RMul(elIn.el.y1, sc), Root.dimLine.x1,
                                  Root.dimLine.y1, off)
            /\ ExtensionAsClaimed(Root.ext2, RMul(elIn.el.x2, sc),
                                  RMul(elIn.el.y2, sc), Root.dimLine.x2,
                                  Root.dimLine.y2, off)


\* a flight of stairs has been rendered to markup
StairsRendered ==
    ElDone /\ elIn.el.type = "stairs" /\ elOut[1] # <<>> /\ ~Raised(elOut[1])
\* the scaled length of the flight of elIn
StairsLength == RMul(elIn.el.length, elIn.scale)

RBetween(a, b, c) == RLeq(a, b) /\ RLeq(b, c)

\* C20 (as claimed): for a flight of positive scaled length the arrow starts
\* at the centre of the rectangle and ends between the centre and the near
\* edge (y) for direction up, between the centre and the far edge
\* (y + length) for direction down.
C20_ArrowDirection ==
    (StairsRendered /\ StairsLength.n > 0) =>
        LET y == Root.rect.y
            cy == RAdd(y, RDiv(Root.rect.height, N(2)))
        IN  /\ Root.arrow.x1 = RAdd(Root.rect.x, RDiv(Root.rect.width, N(2)))
            /\ Root.arrow.y1 = cy
            /\ Root.arrow.x2 = Root.arrow.x1
            /\ elIn.el.direction = "up" => RBetween(y, Root.arrow.y2, cy)
            /\ elIn.el.direction = "down" =>
                  RBetween(cy, Root.arrow.y2, RAdd(y, Root.rect.height))

\* the door of elIn has been rendered
DoorRendered == ElDone /\ elIn.el.type = "door" /\ elOut[1] # <<>>
\* the width of the door of elIn as drawn
DoorWidth == RMul(elIn.el.width, elIn.scale)

\* C21: the markup of a door holds a swing arc exactly when its swing is not
\* sliding; where it does, the leaf runs from the hinge (0, 0) along the
\* local y axis over the scaled door width, both radii of the arc are the
\* scaled door width, the arc leads from the free end of the leaf to the end
\* of the opening, and its sweep flag is 1 (clockwise on the screen, whose y
\* axis points down) exactly when swing is right; left and double give 0.
C21_DoorSwing ==
    DoorRendered =>
        /\ ("arc" \in DOMAIN Root) <=> (elIn.el.swing # "sliding")
        /\ ("arc" \in DOMAIN Root) =>
              /\ Root.leaf.x1 = RInt(0) /\ Root.leaf.y1 = RInt(0)
              /\ Root.leaf.x2 = RInt(0)
              /\ RAbs(RSub(Root.leaf.y2, Root.leaf.y1)) = RAbs(DoorWidth)
              /\ Root.arc.rx = DoorWidth /\ Root.arc.ry = DoorWidth
              /\ Root.arc.from = <<Root.leaf.x2, Root.leaf.y2>>
              /\ Root.arc.to = <<DoorWidth, RInt(0)>>
              /\ (Root.arc.flags = "0,1") <=> (elIn.el.swing = "right")
              /\ (Root.arc.flags = "0,0") <=> (elIn.el.swing # "right")

\* a double door 820 wide drawn at 9/50: leaf and radius 147.6, sweep flag 0
C21_Witness ==
    /\ DoorRendered /\ elIn.el.swing = "double"
    /\ elIn.scale = Rat(9, 50)
    /\ Root.arc.rx = Rat(738, 5)
    /\ Root.leaf.y2 = Rat(-738, 5)
    /\ Root.arc.flags = "0,0"


(***************************************************************************)
(* SpecRobust: generateSVG called once on a drawing whose elements, whose  *)
(* nominal size and whose viewport hold numbers out of their usual range,  *)
(* and an element of a kind the dispatch has no case for.                  *)
(***************************************************************************)
MaxRobustElems == 2

\* ElementType lists "arc"; no interface and no renderer exists for it
Arc1 == [type |-> "arc", id |-> "a1", x |-> N(1500), y |-> N(1500),
         radius |-> N(500)]
WallOdd == [type |-> "wall", id |-> "w2", x1 |-> N(0), y1 |-> N(0),
            x2 |-> N(-1700), y2 |-> N(300), thickness |-> N(-100)]
DoorOdd == [type |-> "door", id |-> "o1", x |-> N(-600), y |-> N(0),
            width |-> N(-820), swing |-> "left", angle |-> N(-450)]
RectOdd == [type |-> "rect", id |-> "r1", x |-> N(0), y |-> N(0),
            width |-> N(-900), height |-> N(0)]
DimOdd == [type |-> "dimension", id |-> "d3", x1 |-> N(0), y1 |-> N(0),
           x2 |-> N(3000), y2 |-> N(0), value |-> N(-3000), unit |-> "ft",
           offset |-> N(0)]
\* flights with no step, with two and a half steps and with more steps than
\* tread lines fit a string
StairsNoStep == [type |-> "stairs", id |-> "s1", x |-> N(0), y |-> N(0),
                 width |-> N(0), length |-> N(-1000), steps |-> N(0),
                 angle |-> N(0), direction |-> "down"]
StairsHalfStep == [StairsNoStep EXCEPT !.steps = Rat(5, 2), !.id = "s2"]
StairsManySteps == [StairsNoStep EXCEPT !.steps = N(MaxTreadLines),
                                        !.length = N(3000), !.width = N(900),
                                        !.id = "s3"]

RobustPool == {Arc1, Wall1, Dim1, WallOdd, DoorOdd, RectOdd, DimOdd,
               StairsNoStep, StairsHalfStep, StairsManySteps}
\* nominal width and height of the drawing: usual, zero, negative
RobustSizes == {<<6000, 4000>>, <<0, 4000>>, <<-6000, 0>>}
\* viewports: usual, exactly twice the padding, empty, narrower than the
\* padding
RobustViewports ==
    {InitialViewport, [width |-> N(120), height |-> N(120)],
     [width |-> N(0), height |-> N(0)], [width |-> N(100), height |-> N(900)]}

InitRobust ==
    /\ RestIdle
    /\ drawing \in {[DrawingOf(es, 0) EXCEPT !.width = N(sz[1]),
                                             !.height = N(sz[2])] :
                       es \in SeqsUpTo(RobustPool, MaxRobustElems),
                       sz \in RobustSizes}
    /\ viewportSize = InitialViewport
    /\ svgString = Null
    /\ renderLog = Null
    /\ now = 0
    /\ editingDimension = Null /\ editValue = <<>>
    /\ fmtIn = Null /\ fmtOut = <<>> /\ scaleIn = Null /\ scaleOut = <<>>
    /\ elIn = Null /\ elOut = <<>>

\* the one call generateSVG(drawing, vp.width, vp.height); svgString holds
\* what it returned or what it threw
GenerateOnce(vp) ==
    /\ svgString = Null
    /\ svgString' = generateSVG(drawing, vp.width, vp.height)
    /\ viewportSize' = vp
    /\ UNCHANGED <<drawing, renderLog, now, viewerVars, restVars, engineVars>>

NextRobust == \E vp \in RobustViewports : GenerateOnce(vp)

SpecRobust == InitRobust /\ [][NextRobust]_vars

\* generateSVG threw
Thrown == Rendered /\ "raised" \in DOMAIN svgString
\* the scale factor of the call that produced svgString
RenderedScale ==
    calculateScale(drawing.width, drawing.height, viewportSize.width,
                   viewportSize.height, N(Padding))
\* what renderElement makes of the k-th element of the drawing
ElementMarkup(k) ==
    renderElement(drawing.elements[k], RenderedScale, drawing.unit)
RECURSIVE WithoutNL(_)
\* markup without the line breaks that join the elements' strings
WithoutNL(nodes) ==
    IF nodes = <<>> THEN <<>>
    ELSE (IF Head(nodes) = NL THEN <<>> ELSE <<Head(nodes)>>)
            \o WithoutNL(Tail(nodes))
RECURSIVE Concat(_, _)
\* the strings of strs from position i on, one after the other
Concat(strs, i) ==
    IF i > Len(strs) THEN <<>> ELSE strs[i] \o Concat(strs, i + 1)
\* the positions, in the order of rendering, of the elements whose kind the
\* dispatch knows
KnownOrder ==
    LET order == renderOrder(drawing.elements)
    IN  SelectSeq(order, LAMBDA k : drawing.elements[k].type # "arc")

\* C13: an element of a kind without a renderer ("arc") renders to the empty
\* string and raises nothing, and generateSVG renders every other element of
\* the drawing: its content is the markup of the other elements, and if it
\* throws, then because one of the other elements does.
C13_UnknownKindIgnored ==
    Rendered =>
        /\ \A k \in 1..Len(drawing.elements) :
              drawing.elements[k].type = "arc" => ElementMarkup(k) = <<>>
        /\ Thrown => \E k \in 1..Len(drawing.elements) :
                        /\ drawing.elements[k].type # "arc"
                        /\ Raised(ElementMarkup(k))
        /\ ~Thrown =>
              WithoutNL(Children) =
                 Concat([j \in 1..Len(KnownOrder) |->
                            ElementMarkup(KnownOrder[j])], 1)

\* a drawing of an arc followed by a wall has been rendered: the content is
\* the wall's polygon
C13_Witness ==
    /\ Rendered /\ ~Thrown
    /\ drawing.elements = <<Arc1, Wall1>>
    /\ WithoutNL(Children) = ElementMarkup(2)
    /\ Len(ElementMarkup(2)) = 1
    /\ ElementMarkup(1) = <<>>

\* C15 (as claimed): for a well-typed drawing with finite numbers, among them
\* zero or negative widths, thicknesses, offsets, step counts, viewport sizes
\* and nominal sizes, generateSVG returns a string and nothing is thrown.
C15_NeverRaises == ~Thrown

(***************************************************************************)
(* SpecScale: calculateScale applied once                                  *)
(***************************************************************************)
ScaleWidths == {6000, 4000, 2400, 1}
ScaleHeights == {4000, 6000, 2400}
ScaleViewportWidths == {1200, 800, 320, 100}
ScaleViewportHeights == {900, 600, 300}
ScalePaddings == {60, 0}

InitScale ==
    /\ RestIdle
    /\ scaleIn \in [w : ScaleWidths, h : ScaleHeights,
                    vw : ScaleViewportWidths, vh : ScaleViewportHeights,
                    p : ScalePaddings]
    /\ scaleOut = <<>>
    /\ drawing = Null /\ viewportSize = InitialViewport /\ svgString = Null
    /\ renderLog = Null /\ now = 0
    /\ editingDimension = Null /\ editValue = <<>>
    /\ fmtIn = Null /\ fmtOut = <<>> /\ elIn = Null /\ elOut = <<>>

CalculateScale ==
    /\ scaleOut = <<>>
    /\ scaleOut' = <<calculateScale(N(scaleIn.w), N(scaleIn.h), N(scaleIn.vw),
                                    N(scaleIn.vh), N(scaleIn.p))>>
    /\ UNCHANGED <<drawing, viewportSize, svgString, renderLog, now,
                   viewerVars, restVars, fmtIn, fmtOut, scaleIn, elIn, elOut>>

NextScale == CalculateScale

SpecScale == InitScale /\ [][NextScale]_vars

\* C9: for positive W and H the factor f = calculateScale(W, H, vw, vh, p)
\* has f * W <= vw - 2p and f * H <= vh - 2p with equality on at least one
\* axis; for (6000, 4000, 1200, 900, 60) it is min(1080/6000, 780/4000).
C9_ScaleFits ==
    scaleOut # <<>> =>
        LET f == scaleOut[1]
            fw == RMul(f, N(scaleIn.w))
            fh == RMul(f, N(scaleIn.h))
            availW == N(scaleIn.vw - 2 * scaleIn.p)
            availH == N(scaleIn.vh - 2 * scaleIn.p)
        IN  /\ RLeq(fw, availW)
            /\ RLeq(fh, availH)
            /\ fw = availW \/ fh = availH
            /\ (scaleIn = [w |-> 6000, h |-> 4000, vw |-> 1200, vh |-> 900,
                           p |-> 60])
                  => /\ f = RMin(Rat(1080, 6000), Rat(780, 4000))
                     /\ f = Rat(9, 50)

\* the call of the example has returned; the width is the tighter axis
C9_Witness ==
    /\ scaleOut # <<>>
    /\ scaleIn = [w |-> 6000, h |-> 4000, vw |-> 1200, vh |-> 900, p |-> 60]
    /\ RMul(scaleOut[1], N(6000)) = N(1080)
    /\ RLess(RMul(scaleOut[1], N(4000)), N(780))

(***************************************************************************)
(* SpecFormat: formatDimension applied once.  Lengths are in millimetres;  *)
(* "yd" stands for a unit the switch does not list.                        *)
(***************************************************************************)
FormatValues ==
    {N(0), N(1000), N(3000), Rat(9144, 10), Rat(29464, 100), Rat(25, 10),
     Rat(4, 10), Rat(254, 10), Rat(3048, 10), N(2999), Rat(12346, 10),
     N(305), N(3650), Rat(-254, 10), N(-100)}
FormatUnits == {"mm", "cm", "m", "in", "ft", "yd"}

InitFormat ==
    /\ RestIdle
    /\ fmtIn \in [valueMm : FormatValues, unit : FormatUnits]
    /\ fmtOut = <<>>
    /\ drawing = Null /\ viewportSize = InitialViewport /\ svgString = Null
    /\ renderLog = Null /\ now = 0
    /\ editingDimension = Null /\ editValue = <<>>
    /\ scaleIn = Null /\ scaleOut = <<>> /\ elIn = Null /\ elOut = <<>>

FormatDimension ==
    /\ fmtOut = <<>>
    /\ fmtOut' = <<formatDimension(fmtIn.valueMm, fmtIn.unit)>>
    /\ UNCHANGED <<drawing, viewportSize, svgString, renderLog, now,
                   viewerVars, restVars, fmtIn, scaleIn, scaleOut, elIn, elOut>>

NextFormat == FormatDimension

SpecFormat == InitFormat /\ [][NextFormat]_vars

\* the integer nearest to the rational x, the larger one on a tie
NearestInt(x) ==
    CHOOSE k \in -200..12400 : 2 * k * x.d <= 2 * x.n + x.d
                                /\ 2 * x.n + x.d < 2 * (k + 1) * x.d
\* x written with f decimals (f is 1 or 2): the nearest multiple of 10^-f,
\* the sign first
Decimal(x, f) ==
    LET ax == IF x.n < 0 THEN RNeg(x) ELSE x
        k == NearestInt(RMul(ax, N(IF f = 1 THEN 10 ELSE 100)))
        int == k \div (IF f = 1 THEN 10 ELSE 100)
        frac == IF f = 1 THEN ToString(k % 10)
                ELSE ToString((k \div 10) % 10) \o ToString(k % 10)
    IN  (IF x.n < 0 THEN "-" ELSE "") \o ToString(int) \o "." \o frac
\* the greatest integer not above x
FloorOf(x) == CHOOSE k \in -200..12400 : k * x.d <= x.n /\ x.n < (k + 1) * x.d
\* x mod 12 for x >= 0; for x < 0 the remainder keeps the sign of x, as the
\* remainder of the source language does
Mod12(x) ==
    IF x.n >= 0 THEN RSub(x, N(12 * FloorOf(RDiv(x, N(12)))))
    ELSE RNeg(RSub(RNeg(x), N(12 * FloorOf(RDiv(RNeg(x), N(12))))))

\* the per-unit rule of the Unit Formatter
FormatRule(v, unit) ==
    LET inches == RDiv(v, Rat(254, 10))
        mmRule == ToString(NearestInt(v)) \o "mm"
    IN  CASE unit = "mm" -> mmRule
          [] unit = "cm" -> Decimal(RDiv(v, N(10)), 1) \o "cm"
          [] unit = "m"  -> Decimal(RDiv(v, N(1000)), 2) \o "m"
          [] unit = "in" -> Decimal(inches, 1) \o "\""
          [] unit = "ft" -> ToString(FloorOf(RDiv(inches, N(12)))) \o "'"
                              \o ToString(NearestInt(Mod12(inches))) \o "\""
          [] OTHER -> mmRule

\* C10: formatDimension follows the per-unit rule for every input (mm: nearest
\* integer; cm: /10, one decimal; m: /1000, two decimals; in: /25.4, one
\* decimal, inch mark; ft: F'I" with F = floor(inches/12), I = round(inches
\* mod 12); any other unit: as mm), so 914.4 in ft is 3'0", 3000 in m is
\* 3.00m and 1000 in in is 39.4".
C10_FormatRule ==
    /\ fmtOut # <<>> => fmtOut[1] = FormatRule(fmtIn.valueMm, fmtIn.unit)
    /\ (fmtOut # <<>> /\ fmtIn = [valueMm |-> Rat(9144, 10), unit |-> "ft"])
          => fmtOut[1] = "3'0\""
    /\ (fmtOut # <<>> /\ fmtIn = [valueMm |-> N(3000), unit |-> "m"])
          => fmtOut[1] = "3.00m"
    /\ (fmtOut # <<>> /\ fmtIn = [valueMm |-> N(1000), unit |-> "in"])
          => fmtOut[1] = "39.4\""

\* a length has been formatted with a unit the switch does not list
C10_Witness ==
    /\ fmtOut # <<>>
    /\ fmtIn.unit = "yd" /\ fmtIn.valueMm = Rat(9144, 10)
    /\ fmtOut[1] = "914mm"


\* the largest number a formatted length of the model shows, in the last
\* decimal place of its unit
MaxShown == 4000
FtStr(F, I) == ToString(F) \o "'" \o ToString(I) \o "\""

\* C11: for unit ft and a length that is not negative the feet are
\* floor(inches / 12), never raised by the rounding of the remainder, and the
\* inches part is in 0..12; 12 is produced just under a whole foot: 11.6
\* inches format as 0'12", not as 1'0".
C11_NoCarry ==
    /\ (fmtOut # <<>> /\ fmtIn.unit = "ft" /\ fmtIn.valueMm.n >= 0) =>
          \E I \in 0..12 :
             fmtOut[1] =
                FtStr(FloorOf(RDiv(RDiv(fmtIn.valueMm, Rat(254, 10)), N(12))), I)
    /\ (fmtOut # <<>> /\ fmtIn = [valueMm |-> Rat(29464, 100), unit |-> "ft"])
          => fmtOut[1] = "0'12\""

\* 11.6 inches have been formatted in feet and inches
C11_Witness ==
    /\ fmtOut = <<"0'12\"">>
    /\ fmtIn = [valueMm |-> Rat(29464, 100), unit |-> "ft"]

\* the number a formatted length shows, read back from the string: in units
\* of the last decimal place, and for ft as feet * 12 + inches
Shown(str, unit) ==
    CASE unit = "cm" ->
            CHOOSE k \in 0..MaxShown :
               str = ToString(k \div 10) \o "." \o ToString(k % 10) \o "cm"
      [] unit = "m" ->
            CHOOSE k \in 0..MaxShown :
               str = ToString(k \div 100) \o "." \o Digits(k % 100, 2) \o "m"
      [] unit = "in" ->
            CHOOSE k \in 0..MaxShown :
               str = ToString(k \div 10) \o "." \o ToString(k % 10) \o "\""
      [] unit = "ft" ->
            LET p == CHOOSE q \in (0..20) \X (0..12) : str = FtStr(q[1], q[2])
            IN  p[1] * 12 + p[2]
      [] OTHER -> CHOOSE k \in 0..MaxShown : str = ToString(k) \o "mm"

\* C12: for a fixed unit and lengths 0 <= a <= b, the number shown for a is
\* not larger than the number shown for b (for ft: feet * 12 + inches).
C12_Monotonic ==
    (fmtOut # <<>> /\ fmtIn.valueMm.n >= 0) =>
        \A a \in FormatValues :
           (a.n >= 0 /\ RLeq(a, fmtIn.valueMm)) =>
               Shown(formatDimension(a, fmtIn.unit), fmtIn.unit)
                  <= Shown(fmtOut[1], fmtIn.unit)

\* one foot has been formatted; 11.6 inches, a shorter length, show the same
\* twelve inches, and one inch shows less
C12_Witness ==
    /\ fmtOut # <<>>
    /\ fmtIn = [valueMm |-> Rat(3048, 10), unit |-> "ft"]
    /\ Shown(fmtOut[1], "ft") = 12
    /\ Shown(formatDimension(Rat(29464, 100), "ft"), "ft") = 12
    /\ Shown(formatDimension(Rat(254, 10), "ft"), "ft") = 1

(***************************************************************************)
(* The drawing viewer.  The text of the edit box is a sequence of          *)
(* characters, each a one-character string.                                *)
(***************************************************************************)
DigitChars == <<"0", "1", "2", "3", "4", "5", "6", "7", "8", "9">>
IsDigit(c) == \E i \in 1..10 : DigitChars[i] = c
DigitVal(c) == (CHOOSE i \in 1..10 : DigitChars[i] = c) - 1

RECURSIVE NatChars(_)
\* the decimal digits of m >= 0
NatChars(m) ==
    IF m < 10 THEN <<DigitChars[m + 1]>>
    ELSE NatChars(m \div 10) \o <<DigitChars[(m % 10) + 1]>>

RECURSIVE DropZeros(_)
DropZeros(cs) ==
    IF cs # <<>> /\ cs[Len(cs)] = "0" THEN DropZeros(SubSeq(cs, 1, Len(cs) - 1))
    ELSE cs

RECURSIVE PadChars(_, _)
PadChars(cs, k) == IF Len(cs) >= k THEN cs ELSE PadChars(<<"0">> \o cs, k)

\* String(v): an integer prints its digits, any other number its decimal
\* expansion, here to three decimals without trailing zeros
NumberToString(v) ==
    LET neg == v.n < 0
        a == IF neg THEN RNeg(v) ELSE v
        m == MathRound(RMul(a, N(1000)))
        frac == DropZeros(PadChars(NatChars(m % 1000), 3))
    IN  (IF neg THEN <<"-">> ELSE <<>>) \o NatChars(m \div 1000)
           \o (IF frac = <<>> THEN <<>> ELSE <<".">> \o frac)

NaN == [nan |-> TRUE]

RECURSIVE CountDigits(_, _)
\* the number of digits of cs from position i on, up to the first other
\* character
CountDigits(cs, i) ==
    IF i <= Len(cs) /\ IsDigit(cs[i]) THEN 1 + CountDigits(cs, i + 1) ELSE 0

RECURSIVE DigitsValue(_, _, _)
\* the value of the k digits of cs that start at position i
DigitsValue(cs, i, k) ==
    IF k = 0 THEN 0
    ELSE 10 * DigitsValue(cs, i, k - 1) + DigitVal(cs[i + k - 1])

\* a parse that drops the sign
parseFloatUnsigned(cs) ==
    LET signed == cs # <<>> /\ cs[1] \in {"-", "+"}
        i0 == IF signed THEN 2 ELSE 1
        nInt == CountDigits(cs, i0)
        dot == i0 + nInt
        hasDot == dot <= Len(cs) /\ cs[dot] = "."
        nFrac == IF hasDot THEN CountDigits(cs, dot + 1) ELSE 0
    IN  IF nInt + nFrac = 0 THEN NaN
        ELSE Rat(DigitsValue(cs, i0, nInt) * Pow10(nFrac)
                   + DigitsValue(cs, dot + 1, nFrac), Pow10(nFrac))

\* parseFloat: the longest prefix that is a decimal literal (sign, digits,
\* point, digits), NaN when it holds no digit
parseFloat(cs) ==
    LET signed == cs # <<>> /\ cs[1] \in {"-", "+"}
        i0 == IF signed THEN 2 ELSE 1
        nInt == CountDigits(cs, i0)
        dot == i0 + nInt
        hasDot == dot <= Len(cs) /\ cs[dot] = "."
        nFrac == IF hasDot THEN CountDigits(cs, dot + 1) ELSE 0
        mag == Rat(DigitsValue(cs, i0, nInt) * Pow10(nFrac)
                     + DigitsValue(cs, dot + 1, nFrac), Pow10(nFrac))
    IN  IF nInt + nFrac = 0 THEN NaN
        ELSE IF signed /\ cs[1] = "-" THEN RNeg(mag) ELSE mag

updatedElementsAllDimensions(elements, id, newValue) ==
    [i \in 1..Len(elements) |->
        IF elements[i].type = "dimension"
        THEN [elements[i] EXCEPT !.value = newValue]
        ELSE elements[i]]

\* a map that also writes a label into the element it updates
updatedElementsRelabelled(elements, id, newValue) ==
    [i \in 1..Len(elements) |->
        IF elements[i].id = id /\ elements[i].type = "dimension"
        THEN [label |-> "edited", value |-> newValue] @@ elements[i]
        ELSE elements[i]]

\* drawing.elements.map(...) of handleSaveDimension
updatedElements(elements, id, newValue) ==
    [i \in 1..Len(elements) |->
        IF elements[i].id = id /\ elements[i].type = "dimension"
        THEN [elements[i] EXCEPT !.value = newValue]
        ELSE elements[i]]

(***************************************************************************)
(* Spec: the viewer mounted on a generated drawing.  Every handler ends    *)
(* with React's re-render, where useMemo calls generateSVG again when the  *)
(* drawing or the viewport has changed.                                    *)
(***************************************************************************)
ViewerDrawings ==
    {DrawingOf(es, 0) : es \in {<<Dim1, Wall1, Dim1b, Dim2>>,
                                <<Wall1, Dim2, Line0>>,
                                <<Dim1>>}}

\* containerRef.current.getBoundingClientRect(): width and height
ContainerRects == {<<200, 200>>, <<1200, 952>>}

\* what the user types into the edit box
EditTexts == {<<>>, <<"0">>, <<"-", "5">>, <<"9", "1", "4", ".", "4">>}

Max(a, b) == IF a > b THEN a ELSE b

Init ==
    /\ RestIdle
    /\ drawing \in ViewerDrawings
    /\ viewportSize = InitialViewport
    /\ svgString = generateSVG(drawing, InitialViewport.width,
                               InitialViewport.height)
    /\ editingDimension = Null
    /\ editValue = <<>>
    /\ now = 0
    /\ renderLog = Null
    /\ fmtIn = Null /\ fmtOut = <<>> /\ scaleIn = Null /\ scaleOut = <<>>
    /\ elIn = Null /\ elOut = <<>>

\* measure(), at mount and on every window resize
Measure(rect) ==
    LET size == [width |-> N(Max(rect[1], 320)),
                 height |-> N(Max(rect[2] - 52, 300))]
    IN  /\ viewportSize' = size
        /\ svgString' = generateSVG(drawing, size.width, size.height)
        /\ drawing' = inputAfterRender(drawing)
        /\ UNCHANGED <<editingDimension, editValue, now, renderLog,
                       engineVars, restVars, saveResult>>

\* handleSvgClick on the p-th node of the drawing content
SvgClick(p) ==
    /\ p \in 1..Len(Children)
    /\ IsDimensionNode(Children[p])
    /\ LET id == Children[p].id
           found == {i \in 1..Len(drawing.elements) :
                        drawing.elements[i].id = id
                          /\ drawing.elements[i].type = "dimension"}
       IN  IF found # {}
           THEN LET dim == drawing.elements[
                              CHOOSE i \in found : \A j \in found : i <= j]
                IN  /\ editingDimension' = dim
                    /\ editValue' = NumberToString(dim.value)
           ELSE UNCHANGED <<editingDimension, editValue>>
    /\ UNCHANGED <<drawing, viewportSize, svgString, now, renderLog,
                   engineVars, restVars, saveResult>>

\* the edit box's onChange; the box exists while the dialog is open
ChangeEditValue(text) ==
    /\ editingDimension # Null
    /\ editValue' = text
    /\ UNCHANGED <<drawing, viewportSize, svgString, editingDimension, now,
                   renderLog, engineVars, restVars, saveResult>>

\* the dialog's Cancel button and its onOpenChange(false)
CancelEdit ==
    /\ editingDimension # Null
    /\ editingDimension' = Null
    /\ UNCHANGED <<drawing, viewportSize, svgString, editValue, now,
                   renderLog, engineVars, restVars, saveResult>>

\* handleSaveDimension (the Save button, or Enter in the edit box), with
\* handleUpdateDrawing of the page and the re-render that follows
SaveDimension ==
    /\ editingDimension # Null
    /\ LET newValue == parseFloat(editValue)
       IN  IF newValue = NaN \/ newValue.n <= 0
           THEN /\ saveResult' = "rejected"
                /\ UNCHANGED <<drawing, svgString, editingDimension>>
           ELSE LET updated ==
                      [drawing EXCEPT
                         !.elements = updatedElements(drawing.elements,
                                         editingDimension.id, newValue),
                         !.updatedAt = now]
                IN  /\ svgString' = generateSVG(updated, viewportSize.width,
                                                viewportSize.height)
                    /\ drawing' = inputAfterRender(updated)
                    /\ editingDimension' = Null
                    /\ saveResult' = "saved"
    /\ UNCHANGED <<viewportSize, editValue, now, renderLog, engineVars,
                   restVars>>

Next ==
    \/ Tick
    \/ \E rect \in ContainerRects : Measure(rect)
    \/ \E p \in 1..Len(Children) : SvgClick(p)
    \/ \E text \in EditTexts : ChangeEditValue(text)
    \/ CancelEdit
    \/ SaveDimension

Spec == Init /\ [][Next]_vars

\* a save that went through: only handleSaveDimension changes the drawing
Saved == drawing' # drawing
\* the positions of the drawing content whose node differs after the step
ChangedNodes ==
    {p \in 1..Len(Children) : svgString'.content.children[p] # Children[p]}
\* node b is node a with, at most, another label text
OnlyLabelDiffers(a, b) ==
    /\ IsDimensionNode(a)
    /\ b = [a EXCEPT !.text.text = b.text.text]

\* C4 (as claimed): a saved dimension edit, re-rendered in the same viewport,
\* changes only that dimension's label text; all other elements' markup and
\* the title block stay identical.
C4_OnlyThatLabel ==
    [][Saved =>
        /\ Len(svgString'.content.children) = Len(Children)
        /\ Cardinality(ChangedNodes) <= 1
        /\ \A p \in ChangedNodes :
              /\ OnlyLabelDiffers(Children[p], svgString'.content.children[p])
              /\ Children[p].id = editingDimension.id
        /\ svgString' = [svgString EXCEPT
                            !.content.children = svgString'.content.children]
      ]_vars

\* C4 (amended): a saved dimension edit, re-rendered in the same viewport,
\* changes only the label text of the dimension element or elements that
\* carry the edited id, and the date of the title block, which prints the
\* refreshed updatedAt; every other part of the output is identical.
C4_OnlyLabelsAndDate ==
    [][Saved =>
        /\ viewportSize' = viewportSize
        /\ Len(svgString'.content.children) = Len(Children)
        /\ \A p \in ChangedNodes :
              /\ OnlyLabelDiffers(Children[p], svgString'.content.children[p])
              /\ Children[p].id = editingDimension.id
        /\ svgString' = [svgString EXCEPT
                            !.content.children = svgString'.content.children,
                            !.titleBlock.date = svgString'.titleBlock.date]
      ]_vars

\* an edit of d1 to 914.4 has been saved on a later day in the drawing that
\* holds two dimensions with that id, a wall and a third dimension
C4_Witness ==
    /\ Len(drawing.elements) = 4
    /\ drawing.updatedAt >= TicksPerDay
    /\ svgString.titleBlock.date # toLocaleDateString(drawing.createdAt)
    /\ drawing.elements[1].value = Rat(9144, 10)
    /\ drawing.elements[3].value = Rat(9144, 10)
    /\ drawing.elements[4] = Dim2
    /\ \E p \in 1..Len(Children) :
          IsDimensionNode(Children[p]) /\ Children[p].text.text = "914mm"
    /\ editingDimension = Null

\* the ids and the kind tags of the elements of d, in order
IdsAndKinds(d) ==
    [i \in 1..Len(d.elements) |-> <<d.elements[i].id, d.elements[i].type>>]

\* C23: no step of the viewer changes the number, the order, the ids or the
\* kind tags of the drawing's elements; a step that changes the drawing is a
\* save, which changes only the value field of the dimension elements that
\* carry the id of the dimension being edited, sets updatedAt to the time of
\* the save and leaves every other element and every other field of the
\* drawing as it was.
C23_SaveChangesValueOnly ==
    [][/\ IdsAndKinds(drawing') = IdsAndKinds(drawing)
       /\ Saved =>
            /\ editingDimension # Null
            /\ \A i \in 1..Len(drawing.elements) :
                  LET old == drawing.elements[i]
                      new == drawing'.elements[i]
                  IN  IF old.id = editingDimension.id
                           /\ old.type = "dimension"
                      THEN new = [old EXCEPT !.value = parseFloat(editValue)]
                      ELSE new = old
            /\ drawing' = [drawing EXCEPT !.elements = drawing'.elements,
                                          !.updatedAt = now]
      ]_vars

\* the second element of the drawing <<Wall1, Dim2, Line0>> has been saved
\* with the value 914.4 at a later time; the wall and the line are as before
C23_Witness ==
    /\ Len(drawing.elements) = 3
    /\ drawing.elements[1] = Wall1
    /\ drawing.elements[2] = [Dim2 EXCEPT !.value = Rat(9144, 10)]
    /\ drawing.elements[3] = Line0
    /\ drawing.updatedAt > 0
    /\ editingDimension = Null

\* the text of a number input that holds no number (it is empty) or a
\* number that is not above 0 (it has a minus sign or no digit but 0)
NotPositiveText(cs) ==
    \/ cs = <<>>
    \/ cs[1] = "-"
    \/ \A i \in 1..Len(cs) : cs[i] \in {"0", "."}

\* handleSaveDimension has run in this step
SaveStep == saveResult' # saveResult

\* C27: a save whose text is not a number or is not above 0 is rejected, and
\* a rejected save leaves the drawing, its updatedAt and its rendering as
\* they were (onUpdateDrawing is not reached) and the dialog open on the same
\* dimension with the same text.
C27_RejectedSave ==
    [][SaveStep =>
        /\ NotPositiveText(editValue) <=> saveResult' = "rejected"
        /\ saveResult' = "rejected" =>
              /\ drawing' = drawing
              /\ svgString' = svgString
              /\ editingDimension # Null
              /\ editingDimension' = editingDimension
              /\ editValue' = editValue
      ]_vars

\* a save of the text -5 has been rejected after the clock has advanced: the
\* dialog is open and the drawing carries the date it was made
C27_Witness ==
    /\ saveResult = "rejected"
    /\ editValue = <<"-", "5">>
    /\ editingDimension # Null
    /\ now > 0 /\ drawing.updatedAt = 0


(***************************************************************************)
(* The generate route: POST builds a Drawing from the JSON the generator   *)
(* returned, and the page hands the drawing of the response to the viewer, *)
(* which renders it.                                                       *)
(***************************************************************************)
\* (drawingData.elements || []).map((el, i) => ({ ...el, id: el.id ||
\* `el-${i}` })), i counting from 0
routeElements(drawingData) ==
    LET elements == IF Has(drawingData, "elements")
                    THEN drawingData.elements ELSE <<>>
    IN  [i \in 1..Len(elements) |->
            [id |-> StrOr(elements[i], "id", "el-" \o ToString(i - 1))]
                @@ elements[i]]

\* the text of the generator holds no {...}
NoJson == [nojson |-> TRUE]

\* POST from the generator's text on; description and notes, which nothing
\* reads afterwards, are left out of the drawing
POST(drawingData, body, t) ==
    IF drawingData = NoJson
    THEN [error |-> "Failed to generate drawing data"]
    ELSE [drawing |->
            [id |-> "drawing-1",
             type |-> StrOr(drawingData, "type",
                            StrOr(body, "drawingType", "floor_plan")),
             title |-> StrOr(drawingData, "title",
                             StrOr(body, "title", "Untitled Drawing")),
             unit |-> StrOr(body, "unit", StrOr(drawingData, "unit", "mm")),
             scale |-> StrOr(drawingData, "scale", "1:50"),
             elements |-> routeElements(drawingData),
             width |-> NumOr(drawingData, "width", N(6000)),
             height |-> NumOr(drawingData, "height", N(4000)),
             createdAt |-> t, updatedAt |-> t,
             projectName |-> body.title,
             drawnBy |-> "SketchTool AI"]]

\* the body handleGenerateDrawing sends when there is no photo analysis
RequestBody ==
    [drawingType |-> "floor_plan", title |-> "Site Sketch", unit |-> "mm"]

MaxRouteElems == 2

\* element ids as a generator may write them: none, empty, one that two
\* elements share, and one of the form the route makes up itself
GeneratorIds == {<<>>, <<"">>, <<"d1">>, <<"el-1">>}
GeneratorElements ==
    {Wall1} \cup
    {IF id = <<>> THEN [f \in DOMAIN Dim1 \ {"id"} |-> Dim1[f]]
                  ELSE [Dim1 EXCEPT !.id = id[1]] : id \in GeneratorIds}
\* width and height as a generator may write them: none, zero, negative,
\* positive
GeneratorWidths == {<<>>, <<0>>, <<-6000>>, <<8000>>}
GeneratorHeights == {<<>>, <<0>>, <<-4000>>}

GeneratorJson(elements, w, h) ==
    [type |-> "floor_plan", title |-> "Room", unit |-> "mm",
     scale |-> "1:50", elements |-> elements]
      @@ (IF w = <<>> THEN <<>> ELSE [width |-> N(w[1])])
      @@ (IF h = <<>> THEN <<>> ELSE [height |-> N(h[1])])

GeneratorData ==
    {NoJson} \cup
    {GeneratorJson(es, w, h) :
        es \in SeqsUpTo(GeneratorElements, MaxRouteElems),
        w \in GeneratorWidths, h \in GeneratorHeights}

InitRoute ==
    /\ routeIn \in GeneratorData
    /\ routeOut = Null
    /\ drawing = Null /\ viewportSize = InitialViewport /\ svgString = Null
    /\ renderLog = Null /\ now = 0
    /\ editingDimension = Null /\ editValue = <<>> /\ saveResult = "none"
    /\ zoom = RInt(1) /\ panOffset = [x |-> 0, y |-> 0]
    /\ isPanning = FALSE /\ panStart = [x |-> 0, y |-> 0]
    /\ lastTouchDist = RInt(0)
    /\ PageIdle
    /\ fmtIn = Null /\ fmtOut = <<>> /\ scaleIn = Null /\ scaleOut = <<>>
    /\ elIn = Null /\ elOut = <<>>

\* the route answers the request
Post ==
    /\ routeOut = Null
    /\ routeOut' = POST(routeIn, RequestBody, now)
    /\ UNCHANGED <<drawing, viewportSize, svgString, renderLog, now,
                   viewerVars, zoomVars, engineVars, pageVars, routeIn>>

\* handleGenerateDrawing from `const data = await res.json()` on, for a
\* response that holds a drawing: setDrawing, and the viewer's first render
ReceiveDrawing ==
    /\ routeOut # Null /\ Has(routeOut, "drawing")
    /\ drawing = Null
    /\ drawing' = routeOut.drawing
    /\ svgString' = generateSVG(routeOut.drawing, viewportSize.width,
                                viewportSize.height)
    /\ UNCHANGED <<viewportSize, renderLog, now, viewerVars, zoomVars,
                   engineVars, pageVars, routeVars>>

NextRoute == Post \/ ReceiveDrawing

SpecRoute == InitRoute /\ [][NextRoute]_vars

\* the route has returned a drawing
Returned == routeOut # Null /\ Has(routeOut, "drawing")

\* C24 (as claimed): the elements of every drawing the route returns have
\* pairwise distinct ids, whatever ids the generator's JSON held.
C24_DistinctIds ==
    Returned =>
        \A i, j \in 1..Len(routeOut.drawing.elements) :
            i # j => routeOut.drawing.elements[i].id
                       # routeOut.drawing.elements[j].id

\* C25 (as claimed): every drawing of the route that generateSVG has
\* rendered has a width above 0 and a height above 0, whatever width and
\* height the generator's JSON held.
C25_PositiveSize ==
    (svgString # Null /\ drawing # Null) =>
        /\ RLess(N(0), drawing.width)
        /\ RLess(N(0), drawing.height)

(***************************************************************************)
(* SpecZoom: the toolbar and the gestures of the viewer that zoom and pan  *)
(* the rendered drawing.                                                   *)
(***************************************************************************)
\* zoom in with a cap of 5
handleZoomInWide(z) == RMin(RAdd(z, Rat(1, 4)), RInt(5))

handleZoomIn(z) == RMin(RAdd(z, Rat(1, 4)), RInt(4))
handleZoomOut(z) == RMax(RSub(z, Rat(1, 4)), Rat(1, 4))
\* the zoom and the pan offset that handleFit sets
handleFit == [zoom |-> RInt(1), panOffset |-> [x |-> 0, y |-> 0]]

\* Math.sqrt(dx * dx + dy * dy) between the first two touches; the touches
\* of the model lie at whole distances
touchDist(touches) ==
    LET dx == touches[1].x - touches[2].x
        dy == touches[1].y - touches[2].y
    IN  RInt(ISqrt(dx * dx + dy * dy))

\* the zoom that handleTouchMove sets for two touches at distance dist
pinchZoom(z, dist, last) ==
    LET delta == RSub(dist, last)
    IN  RMax(Rat(1, 4), RMin(RInt(4), RAdd(z, RMul(delta, Rat(5, 1000)))))

\* the pointer positions of the model
PointerPositions == {[x |-> 0, y |-> 0], [x |-> 40, y |-> 0]}
\* one finger, and two fingers 50, 100 and 900 apart
TouchLists ==
    {<<[x |-> 0, y |-> 0]>>,
     <<[x |-> 0, y |-> 0], [x |-> 30, y |-> 40]>>,
     <<[x |-> 60, y |-> 80], [x |-> 0, y |-> 0]>>,
     <<[x |-> 0, y |-> 0], [x |-> 0, y |-> 900]>>}
\* the model follows the pan this far from the origin
MaxPan == 40

InitZoom ==
    /\ RestIdle
    /\ drawing \in ViewerDrawings
    /\ viewportSize = InitialViewport
    /\ svgString = generateSVG(drawing, InitialViewport.width,
                               InitialViewport.height)
    /\ editingDimension = Null /\ editValue = <<>>
    /\ now = 0 /\ renderLog = Null
    /\ fmtIn = Null /\ fmtOut = <<>> /\ scaleIn = Null /\ scaleOut = <<>>
    /\ elIn = Null /\ elOut = <<>>

\* neither the drawing nor the render depends on zoom and pan, which enter
\* a CSS transform around the rendered markup only
ZoomFrame ==
    UNCHANGED <<drawing, viewportSize, svgString, renderLog, now, viewerVars,
                engineVars, routeVars, pageVars>>

ZoomIn ==
    /\ zoom' = handleZoomIn(zoom)
    /\ UNCHANGED <<panOffset, isPanning, panStart, lastTouchDist>>
    /\ ZoomFrame

ZoomOut ==
    /\ zoom' = handleZoomOut(zoom)
    /\ UNCHANGED <<panOffset, isPanning, panStart, lastTouchDist>>
    /\ ZoomFrame

Fit ==
    /\ zoom' = handleFit.zoom
    /\ panOffset' = handleFit.panOffset
    /\ UNCHANGED <<isPanning, panStart, lastTouchDist>>
    /\ ZoomFrame

\* handlePointerDown for a touch or the main button
PointerDown(e) ==
    /\ isPanning' = TRUE
    /\ panStart' = [x |-> e.x - panOffset.x, y |-> e.y - panOffset.y]
    /\ UNCHANGED <<zoom, panOffset, lastTouchDist>>
    /\ ZoomFrame

PointerMove(e) ==
    /\ isPanning
    /\ Abs(e.x - panStart.x) <= MaxPan /\ Abs(e.y - panStart.y) <= MaxPan
    /\ panOffset' = [x |-> e.x - panStart.x, y |-> e.y - panStart.y]
    /\ UNCHANGED <<zoom, isPanning, panStart, lastTouchDist>>
    /\ ZoomFrame

\* onPointerUp and onPointerLeave
PointerUp ==
    /\ isPanning' = FALSE
    /\ UNCHANGED <<zoom, panOffset, panStart, lastTouchDist>>
    /\ ZoomFrame

TouchStart(touches) ==
    /\ lastTouchDist' = IF Len(touches) = 2 THEN touchDist(touches)
                        ELSE lastTouchDist
    /\ UNCHANGED <<zoom, panOffset, isPanning, panStart>>
    /\ ZoomFrame

TouchMove(touches) ==
    /\ IF Len(touches) = 2
       THEN /\ zoom' = pinchZoom(zoom, touchDist(touches), lastTouchDist)
            /\ lastTouchDist' = touchDist(touches)
       ELSE UNCHANGED <<zoom, lastTouchDist>>
    /\ UNCHANGED <<panOffset, isPanning, panStart>>
    /\ ZoomFrame

NextZoom ==
    \/ ZoomIn
    \/ ZoomOut
    \/ Fit
    \/ \E e \in PointerPositions : PointerDown(e)
    \/ \E e \in PointerPositions : PointerMove(e)
    \/ PointerUp
    \/ \E touches \in TouchLists : TouchStart(touches)
    \/ \E touches \in TouchLists : TouchMove(touches)

SpecZoom == InitZoom /\ [][NextZoom]_vars

\* C26: the zoom level is at least 0.25 and at most 4 after any sequence of
\* zoom-in, zoom-out, fit, pan and pinch events, and a fit leaves the zoom
\* at 1 and the pan offset at (0, 0).
C26_ZoomRange ==
    /\ [](RLeq(Rat(1, 4), zoom) /\ RLeq(zoom, RInt(4)))
    /\ [][Fit => (zoom' = RInt(1) /\ panOffset' = [x |-> 0, y |-> 0])]_vars

\* the drawing has been panned and then pinched out, from fingers 50 apart
\* to fingers 900 apart, which stops at zoom 4
C26_Witness ==
    /\ zoom = RInt(4)
    /\ lastTouchDist = RInt(900)
    /\ panOffset = [x |-> 40, y |-> 0]

(***************************************************************************)
(* SpecPage: the sketch page with its chat and its voice input.  A fetch   *)
(* that has been started settles at any later moment, whatever the page    *)
(* has done in between; a message is kept as its kind (the prefix of its   *)
(* id) and an entry of the conversation as its role.  The viewer that the  *)
(* drawing step mounts is the subject of Spec and SpecZoom.                *)
(***************************************************************************)
\* the page starts this many fetches at most
MaxRequests == 3

STEPS == <<"capture", "chat", "drawing">>
\* STEPS.findIndex((s) => s.key === step), counting from 1
StepIndex(key) == CHOOSE i \in 1..Len(STEPS) : STEPS[i] = key

\* a click that moves to whatever step is clicked
clickStepAnywhere(current, d, i) == STEPS[i]

\* the step after a click on the i-th button of the step indicator
clickStep(current, d, i) ==
    LET back == IF i <= StepIndex(current) THEN STEPS[i] ELSE current
    IN  IF STEPS[i] = "drawing" /\ d # Null THEN STEPS[i] ELSE back

\* what the analysis, the chat and the generate request can settle with: a
\* result, an error response, or a failure of the network
AnalyzeOutcomes == {"analysis", "text", "error", "network"}
ChatOutcomes == {"reply", "ready", "error", "network"}
GenerateOutcomes == {"drawing", "error", "network"}

\* the drawing of a successful response of the generate route
GeneratedDrawing ==
    POST(GeneratorJson(<<Dim1>>, <<>>, <<>>), RequestBody, 0).drawing

InitPage ==
    /\ PageIdle
    /\ drawing = Null /\ viewportSize = InitialViewport /\ svgString = Null
    /\ renderLog = Null /\ now = 0
    /\ editingDimension = Null /\ editValue = <<>> /\ saveResult = "none"
    /\ zoom = RInt(1) /\ panOffset = [x |-> 0, y |-> 0]
    /\ isPanning = FALSE /\ panStart = [x |-> 0, y |-> 0]
    /\ lastTouchDist = RInt(0)
    /\ routeIn = Null /\ routeOut = Null
    /\ fmtIn = Null /\ fmtOut = <<>> /\ scaleIn = Null /\ scaleOut = <<>>
    /\ elIn = Null /\ elOut = <<>>

PageFrame ==
    UNCHANGED <<viewportSize, svgString, renderLog, now, viewerVars, zoomVars,
                engineVars, routeVars>>

\* SketchChat and VoiceInput exist while the step is chat; they are mounted
\* with an empty input and not listening, and the cleanup of VoiceInput
\* aborts the recognition
ChatMounted(newStep) ==
    IF step = "chat" /\ newStep = "chat"
    THEN UNCHANGED <<input, isListening>>
    ELSE input' = "" /\ isListening' = FALSE

\* fetch(...): one more request of this kind is on its way
Fetch(kind) ==
    /\ sent < MaxRequests
    /\ sent' = sent + 1
    /\ requests' = requests \cup {[id |-> sent + 1, kind |-> kind]}

\* handlePhotoCapture up to the fetch; PhotoCapture is shown at the capture
\* step
CapturePhoto ==
    /\ step = "capture"
    /\ photo' = [name |-> "site.jpg"]
    /\ step' = "chat"
    /\ isLoading' = TRUE
    /\ messages' = <<"welcome">>
    /\ Fetch("analyze")
    /\ ChatMounted("chat")
    /\ UNCHANGED <<drawing, conversation, isGenerating, analysis,
                   readyToGenerate>>
    /\ PageFrame

\* handlePhotoCapture from the response on
AnalyzeDone(r, outcome) ==
    /\ r \in requests /\ r.kind = "analyze"
    /\ requests' = requests \ {r}
    /\ messages' = Append(messages, IF outcome \in {"analysis", "text"}
                                    THEN "analysis" ELSE "error")
    /\ conversation' = Append(conversation, "assistant")
    /\ analysis' = IF outcome = "analysis"
                   THEN [suggestedDrawingType |-> "floor_plan"] ELSE analysis
    /\ isLoading' = FALSE
    /\ UNCHANGED <<drawing, step, photo, isGenerating, readyToGenerate, sent,
                   input, isListening>>
    /\ PageFrame

\* handleSendMessage up to the fetch
SendMessage ==
    /\ messages' = Append(messages, "user")
    /\ conversation' = Append(conversation, "user")
    /\ isLoading' = TRUE
    /\ Fetch("chat")
    /\ UNCHANGED <<drawing, step, photo, isGenerating, analysis,
                   readyToGenerate>>
    /\ PageFrame

\* the textarea's onChange; the textarea is disabled while isLoading
TypeInput ==
    /\ step = "chat" /\ ~isLoading
    /\ input = ""
    /\ input' = "text"
    /\ UNCHANGED <<drawing, step, photo, messages, conversation, isLoading,
                   isGenerating, analysis, readyToGenerate, requests, sent,
                   isListening>>
    /\ PageFrame

\* handleSend of SketchChat: the Send button, or Enter in the textarea
Send ==
    /\ step = "chat"
    /\ input # "" /\ ~isLoading
    /\ SendMessage
    /\ input' = ""
    /\ UNCHANGED isListening

\* toggleListening; the microphone button is disabled while isLoading
ToggleListening ==
    /\ step = "chat" /\ ~isLoading
    /\ isListening' = ~isListening
    /\ UNCHANGED <<drawing, step, photo, messages, conversation, isLoading,
                   isGenerating, analysis, readyToGenerate, requests, sent,
                   input>>
    /\ PageFrame

\* recognition.onresult with a final transcript: handleVoiceTranscript; the
\* recognition is continuous and keeps running
VoiceTranscript ==
    /\ step = "chat" /\ isListening
    /\ SendMessage
    /\ UNCHANGED <<input, isListening>>

\* recognition.onend and recognition.onerror
RecognitionEnd ==
    /\ step = "chat" /\ isListening
    /\ isListening' = FALSE
    /\ UNCHANGED <<drawing, step, photo, messages, conversation, isLoading,
                   isGenerating, analysis, readyToGenerate, requests, sent,
                   input>>
    /\ PageFrame

\* handleSendMessage from the response on
ChatDone(r, outcome) ==
    /\ r \in requests /\ r.kind = "chat"
    /\ requests' = requests \ {r}
    /\ messages' = Append(messages, IF outcome \in {"reply", "ready"}
                                    THEN "assistant" ELSE "error")
    /\ conversation' = IF outcome = "network" THEN conversation
                       ELSE Append(conversation, "assistant")
    /\ readyToGenerate' = (readyToGenerate \/ outcome = "ready")
    /\ isLoading' = FALSE
    /\ UNCHANGED <<drawing, step, photo, isGenerating, analysis, sent, input,
                   isListening>>
    /\ PageFrame

\* handleGenerateDrawing up to the fetch, from either Generate button
GenerateDrawing ==
    /\ step = "chat"
    /\ \/ readyToGenerate /\ ~isGenerating
       \/ ~readyToGenerate /\ Len(messages) > 2 /\ ~isGenerating /\ ~isLoading
    /\ isGenerating' = TRUE
    /\ step' = "drawing"
    /\ Fetch("generate")
    /\ ChatMounted("drawing")
    /\ UNCHANGED <<drawing, photo, messages, conversation, isLoading, analysis,
                   readyToGenerate>>
    /\ PageFrame

\* handleGenerateDrawing from the response on
GenerateDone(r, outcome) ==
    /\ r \in requests /\ r.kind = "generate"
    /\ requests' = requests \ {r}
    /\ IF outcome = "drawing"
       THEN /\ drawing' = GeneratedDrawing
            /\ ChatMounted(step)
            /\ UNCHANGED <<messages, step>>
       ELSE /\ messages' = Append(messages, "gen-error")
            /\ step' = "chat"
            /\ ChatMounted("chat")
            /\ UNCHANGED drawing
    /\ isGenerating' = FALSE
    /\ UNCHANGED <<photo, conversation, isLoading, analysis, readyToGenerate,
                   sent>>
    /\ PageFrame

\* handleNewSketch
NewSketch ==
    /\ step' = "capture"
    /\ photo' = Null
    /\ messages' = <<>>
    /\ drawing' = Null
    /\ analysis' = Null
    /\ readyToGenerate' = FALSE
    /\ conversation' = <<>>
    /\ ChatMounted("capture")
    /\ UNCHANGED <<isLoading, isGenerating, requests, sent>>
    /\ PageFrame

\* onClick of the i-th button of the step indicator
ClickStep(i) ==
    /\ step' = clickStep(step, drawing, i)
    /\ ChatMounted(clickStep(step, drawing, i))
    /\ UNCHANGED <<drawing, photo, messages, conversation, isLoading,
                   isGenerating, analysis, readyToGenerate, requests, sent>>
    /\ PageFrame

\* The drawing step shows a Back to chat button when nothing is being
\* generated and there is no drawing.  No behaviour reaches that state:
\* the step becomes drawing only together with isGenerating, or by a click
\* while a drawing exists, and the generate request settles with a drawing
\* or with a return to the chat step.
EmptyDrawingStep == step = "drawing" /\ ~isGenerating /\ drawing = Null

NextPage ==
    \/ CapturePhoto
    \/ \E r \in requests, outcome \in AnalyzeOutcomes : AnalyzeDone(r, outcome)
    \/ TypeInput
    \/ Send
    \/ ToggleListening
    \/ VoiceTranscript
    \/ RecognitionEnd
    \/ \E r \in requests, outcome \in ChatOutcomes : ChatDone(r, outcome)
    \/ GenerateDrawing
    \/ \E r \in requests, outcome \in GenerateOutcomes :
          GenerateDone(r, outcome)
    \/ NewSketch
    \/ \E i \in 1..Len(STEPS) : ClickStep(i)

SpecPage == InitPage /\ [][NextPage]_vars

\* C28 (as claimed): isLoading is true whenever a photo-analysis or chat
\* request has not settled yet.
C28_LoadingWhileInFlight ==
    (\E r \in requests : r.kind \in {"analyze", "chat"}) => isLoading

\* step is capture, there are no messages, the conversation history is
\* empty and there is no drawing
SessionReset ==
    /\ step = "capture"
    /\ messages = <<>>
    /\ conversation = <<>>
    /\ drawing = Null

\* C29 (as claimed): a session that New sketch has reset stays reset until a
\* photo is captured: no other step, the arrival of the response to an
\* earlier request included, takes it out of the reset state.
C29_StaysReset ==
    [][(SessionReset /\ photo = Null /\ photo' = Null) => SessionReset']_vars

\* C30: a click on the step indicator moves to a step after the current one
\* only if that step is the drawing step and a drawing exists, and a click on
\* the current step or on an earlier one moves to the step clicked.
C30_StepClicks ==
    [][\A i \in 1..Len(STEPS) :
          ClickStep(i) =>
             /\ StepIndex(step') > StepIndex(step) =>
                   (step' = "drawing" /\ drawing # Null)
             /\ i <= StepIndex(step) => step' = STEPS[i]
             /\ step' \in {step, STEPS[i]}
      ]_vars

\* the page is back at the chat step while a drawing exists, from where a
\* click on the drawing step moves forward
C30_Witness ==
    /\ step = "chat"
    /\ drawing # Null
    /\ clickStep(step, drawing, 3) = "drawing"
    /\ clickStep("capture", Null, 3) = "capture"


====
